---- MODULE Spec2Model ----
(***************************************************************************)
(* Model of src/server.js, the ARKAIOS service proxy: backend selection,   *)
(* the retrying executor fetchWithRetry, response text extraction and the  *)
(* arkaios -> aida -> lab -> degraded fallback chain of the two            *)
(* OpenAI-compatible endpoints.                                            *)
(*                                                                         *)
(* Representation of JavaScript values                                     *)
(*   string     a sequence of chunks [c |-> label, n |-> length]; the      *)
(*              chunk (c, n) stands for the first n characters of the      *)
(*              text c, so that slice(0, k) and "is a prefix of" are exact *)
(*   JSON value a record tagged by t: "str", "num", "bool", "null",        *)
(*              "arr", "obj" (an ordered list of key/value pairs), and     *)
(*              "undef" for JavaScript's undefined                         *)
(*   path spec  a sequence of tokens: keys, "." , "|" and " "              *)
(***************************************************************************)
EXTENDS Integers, Sequences, FiniteSets, TLC

(* ------------------------------ strings ------------------------------ *)

Min(a, b) == IF a <= b THEN a ELSE b
Max(a, b) == IF a >= b THEN a ELSE b

Lit(s) == IF s = "" THEN << >> ELSE << [c |-> s, n |-> Len(s)] >>

\* The first n characters of the long filler text "x...".
Filler(n) == IF n = 0 THEN << >> ELSE << [c |-> "x...", n |-> n] >>

\* String.prototype.length
RECURSIVE StrLen(_)
StrLen(s) == IF s = << >> THEN 0 ELSE Head(s).n + StrLen(Tail(s))

\* String.prototype.slice(0, k)
RECURSIVE Slice0(_, _)
Slice0(s, k) ==
    IF s = << >> \/ k <= 0 THEN << >>
    ELSE IF Head(s).n <= k THEN << Head(s) >> \o Slice0(Tail(s), k - Head(s).n)
    ELSE << [c |-> Head(s).c, n |-> k] >>

RECURSIVE startsWith(_, _)
\* String.prototype.startsWith(p)
startsWith(s, p) ==
    IF p = << >> THEN TRUE
    ELSE IF s = << >> \/ Head(p).c # Head(s).c THEN FALSE
    ELSE IF Head(p).n = Head(s).n THEN startsWith(Tail(s), Tail(p))
    ELSE Head(p).n < Head(s).n /\ Tail(p) = << >>

RECURSIVE SliceFrom(_, _)
\* String.prototype.slice(k); a chunk cut in two keeps its tail as the
\* characters of c from position k on
SliceFrom(s, k) ==
    IF s = << >> \/ k <= 0 THEN s
    ELSE IF Head(s).n <= k THEN SliceFrom(Tail(s), k - Head(s).n)
    ELSE << [c |-> Head(s).c, n |-> Head(s).n - k, from |-> k] >> \o Tail(s)

Whitespace == {" ", "\n"}

\* String.prototype.trim() yields the empty string
IsBlank(s) == \A i \in 1..Len(s) : s[i].c \in Whitespace

RECURSIVE JoinStr(_, _)
\* Array.prototype.join(sep) over an array of strings
JoinStr(parts, sep) ==
    IF parts = << >> THEN << >>
    ELSE IF Len(parts) = 1 THEN parts[1]
    ELSE parts[1] \o sep \o JoinStr(Tail(parts), sep)

NL == Lit("\n")

(* ---------------------------- JSON values ---------------------------- *)

Undef == [t |-> "undef"]
JNull == [t |-> "null"]
JStr(s) == [t |-> "str", s |-> s]
JNum(n) == [t |-> "num", n |-> n]
JBool(b) == [t |-> "bool", b |-> b]
JArr(a) == [t |-> "arr", a |-> a]
JObj(o) == [t |-> "obj", o |-> o]
KV(k, v) == [k |-> k, v |-> v]

IsString(v) == v.t = "str"
IsNullish(v) == v.t \in {"undef", "null"}

\* JavaScript truthiness
Truthy(v) ==
    CASE v.t = "str" -> v.s # << >>
      [] v.t = "num" -> v.n # 0
      [] v.t = "bool" -> v.b
      [] v.t \in {"arr", "obj"} -> TRUE
      [] OTHER -> FALSE

\* a || b
Or(a, b) == IF Truthy(a) THEN a ELSE b

\* v[k] for a value that is neither null nor undefined; the keys used by the
\* proxy name no property of String, Number, Boolean or Array.
Prop(v, k) ==
    IF v.t = "obj" /\ \E i \in 1..Len(v.o) : v.o[i].k = k
    THEN v.o[CHOOSE i \in 1..Len(v.o) :
                 v.o[i].k = k /\ \A j \in (i + 1)..Len(v.o) : v.o[j].k # k].v
    ELSE Undef

\* v?.k
OptProp(v, k) == IF IsNullish(v) THEN Undef ELSE Prop(v, k)

RECURSIVE Stringify(_)
RECURSIVE StringifyItems(_)
RECURSIVE StringifyPairs(_)
\* JSON.stringify(v) for a value obtained from JSON.parse
Stringify(v) ==
    CASE v.t = "str" -> Lit("\"") \o v.s \o Lit("\"")
      [] v.t = "num" -> Lit(ToString(v.n))
      [] v.t = "bool" -> Lit(IF v.b THEN "true" ELSE "false")
      [] v.t = "null" -> Lit("null")
      [] v.t = "arr" -> Lit("[") \o StringifyItems(v.a) \o Lit("]")
      [] v.t = "obj" -> Lit("{") \o StringifyPairs(v.o) \o Lit("}")
StringifyItems(a) ==
    IF a = << >> THEN << >>
    ELSE Stringify(Head(a))
         \o (IF Len(a) > 1 THEN Lit(",") ELSE << >>) \o StringifyItems(Tail(a))
StringifyPairs(o) ==
    IF o = << >> THEN << >>
    ELSE Lit("\"") \o Lit(Head(o).k) \o Lit("\":") \o Stringify(Head(o).v)
         \o (IF Len(o) > 1 THEN Lit(",") ELSE << >>) \o StringifyPairs(Tail(o))

RECURSIVE ToStr(_)
RECURSIVE ToStrItems(_)
\* String(v), the coercion of a template literal `${v}`
ToStr(v) ==
    CASE v.t = "str" -> v.s
      [] v.t = "num" -> Lit(ToString(v.n))
      [] v.t = "bool" -> Lit(IF v.b THEN "true" ELSE "false")
      [] v.t = "null" -> Lit("null")
      [] v.t = "undef" -> Lit("undefined")
      [] v.t = "arr" -> ToStrItems(v.a)
      [] v.t = "obj" -> Lit("[object Object]")
ToStrItems(a) ==
    IF a = << >> THEN << >>
    ELSE (IF IsNullish(Head(a)) THEN << >> ELSE ToStr(Head(a)))
         \o (IF Len(a) > 1 THEN Lit(",") ELSE << >>) \o ToStrItems(Tail(a))

(* ------------------------------ helpers ------------------------------ *)

\* String.prototype.split(sep) on a token sequence
RECURSIVE SplitOn(_, _)
SplitOn(toks, sep) ==
    IF \A i \in 1..Len(toks) : toks[i] # sep THEN << toks >>
    ELSE LET i == CHOOSE i \in 1..Len(toks) :
                      toks[i] = sep /\ \A j \in 1..(i - 1) : toks[j] # sep
         IN  << SubSeq(toks, 1, i - 1) >> \o SplitOn(SubSeq(toks, i + 1, Len(toks)), sep)

RECURSIVE TrimToks(_)
\* String.prototype.trim() on a token sequence
TrimToks(toks) ==
    IF toks = << >> THEN toks
    ELSE IF Head(toks) = " " THEN TrimToks(Tail(toks))
    ELSE IF toks[Len(toks)] = " " THEN TrimToks(SubSeq(toks, 1, Len(toks) - 1))
    ELSE toks

RECURSIVE KeyOf(_)
\* the property name spelled by the tokens of one path segment
KeyOf(toks) == IF toks = << >> THEN "" ELSE Head(toks) \o KeyOf(Tail(toks))

RECURSIVE Walk(_, _)
\* the reduce of dotGet: (acc, k) => (acc && acc[k] !== undefined ? acc[k] : undefined)
Walk(acc, segs) ==
    IF segs = << >> THEN acc
    ELSE Walk(IF Truthy(acc) THEN Prop(acc, KeyOf(Head(segs))) ELSE Undef, Tail(segs))

dotGet(obj, path) ==
    IF path = << >> THEN Undef ELSE Walk(obj, SplitOn(path, "."))

RECURSIVE FirstDefined_Truthy(_, _)
\* Variant of FirstDefined: a candidate is taken only when its value is truthy
FirstDefined_Truthy(obj, candidates) ==
    IF candidates = << >> THEN Undef
    ELSE LET val == dotGet(obj, Head(candidates))
         IN  IF Truthy(val) THEN val ELSE FirstDefined_Truthy(obj, Tail(candidates))

RECURSIVE FirstDefined(_, _)
\* the loop of pickPath over its candidates
FirstDefined(obj, candidates) ==
    IF candidates = << >> THEN Undef
    ELSE LET val == dotGet(obj, Head(candidates))
         IN  IF ~IsNullish(val) THEN val ELSE FirstDefined(obj, Tail(candidates))

pickPath(obj, pathStr) ==
    IF pathStr = << >> THEN Undef
    ELSE LET trimmed == [i \in 1..Len(SplitOn(pathStr, "|")) |->
                            TrimToks(SplitOn(pathStr, "|")[i])]
         IN  FirstDefined(obj, SelectSeq(trimmed, LAMBDA p : p # << >>))

\* promptText is a string
buildDegradedText(promptText) ==
    JoinStr(<< Lit("Servicio temporalmente saturado (rate-limit en proveedores)."),
               Lit("Tu solicitud fue recibida y el sistema esta en modo degradado."),
               Lit("Prompt: ") \o (IF promptText # << >> THEN promptText ELSE Lit("(vacio)")),
               Lit("Sugerencia: reintentar en 30-90 segundos.") >>, NL)

RECURSIVE trimBase(_)
\* (b || '').replace(/\/+$/, ''); trailing slashes are chunks of their own
trimBase(b) ==
    IF b # << >> /\ b[Len(b)].c = "/" THEN trimBase(SubSeq(b, 1, Len(b) - 1)) ELSE b

\* Variants of shouldRetryStatus: 429 is not retried; every 4xx is retried
shouldRetryStatus_No429(status) == status >= 500 /\ status <= 599
shouldRetryStatus_Any4xx(status) == status >= 400 /\ status <= 599

shouldRetryStatus(status) == status = 429 \/ (status >= 500 /\ status <= 599)

\* Number.parseInt of an environment value: "unset" and "junk" are not numbers
asInt(value, fallback) ==
    IF value.t = "num" /\ value.n > 0 THEN value.n ELSE fallback

\* Variant of authMiddleware: any bearer token is accepted
authMiddleware_AnyBearer(key, authorization) ==
    LET auth == Or(authorization, JStr(<< >>)).s
    IN  key = << >> \/ startsWith(auth, Lit("Bearer "))

\* authMiddleware calls next(): key is PROXY_API_KEY, empty when it is not
\* set, and authorization the header of the request, undefined when absent
authMiddleware(key, authorization) ==
    LET auth == Or(authorization, JStr(<< >>)).s
        token == IF startsWith(auth, Lit("Bearer ")) THEN JStr(SliceFrom(auth, 7)) ELSE JNull
    IN  key = << >> \/ token = JStr(key)

\* The Retry-After header of a response:
\*   [kind |-> "none"]                 no header
\*   [kind |-> "secs", tenths |-> d]   a number of seconds, d tenths of a millisecond
\*   [kind |-> "date", diff |-> ms]    an HTTP date, ms milliseconds after now
\*   [kind |-> "junk"]                 neither
\* A number of seconds that is not positive is then read as a date; such a
\* date lies in the past.
retryAfterMs(header) ==
    CASE header.kind = "secs" /\ header.tenths > 0 -> JNum((header.tenths + 5) \div 10)
      [] header.kind = "date" /\ header.diff > 0 -> JNum(header.diff)
      [] OTHER -> JNull

RECURSIVE Pow2(_)
Pow2(k) == IF k = 0 THEN 1 ELSE 2 * Pow2(k - 1)

Backoff(maxDelay, baseDelay, attempt) == Min(maxDelay, baseDelay * Pow2(attempt - 1))

\* Variant of WaitAfterResponse: a hint replaces the computed backoff
WaitAfterResponse_HintReplaces(hinted, backoff, jitter) ==
    IF Truthy(hinted) THEN hinted.n ELSE backoff + jitter

\* waitMs after a retryable response
WaitAfterResponse(hinted, backoff, jitter) == Max(Or(hinted, JNum(0)).n, backoff + jitter)

\* waitMs after a thrown error
WaitAfterError(backoff, jitter) == backoff + jitter

(* --------------------------- configuration --------------------------- *)

\* Environment defaults of the destructuring of process.env
ARKAIOS_PATH == Lit("/api/chat")
ARKAIOS_REQ_FIELD == "input"
ARKAIOS_RESP_PATH == << "data", ".", "text" >>
AIDA_PATH == Lit("/aida/gateway")
AIDA_AGENT_ID == Lit("puter")
AIDA_ACTION == Lit("plan")
AIDA_OBJECTIVE_FIELD == "objective"
AIDA_RESP_PATH ==
    << "data", ".", "text", "|", "result", ".", "note", "|", "result", ".", "text",
       "|", "text", "|", "reply", "|", "response" >>
LAB_MCP_PATH == Lit("/mcp/run")
LAB_MCP_RESP_PATH ==
    << "result", ".", "text", "|", "data", ".", "text", "|", "text", "|", "reply",
       "|", "response" >>
LabDefaultBase == Lit("http://localhost:8090")

\* String.prototype.toLowerCase, on the texts model identifiers are made of
LowerText(c) ==
    CASE c \in {"AIDA", "Aida"} -> "aida"
      [] c \in {"LAB", "Lab"} -> "lab"
      [] c = "ARKAIOS" -> "arkaios"
      [] OTHER -> c

toLowerCase(s) == [i \in 1..Len(s) |-> [c |-> LowerText(s[i].c), n |-> s[i].n]]

\* (modelId || '').toLowerCase() throws a TypeError when modelId is truthy and
\* not a string: numbers, booleans, arrays and objects have no toLowerCase.
pickThrows(modelId) == Truthy(modelId) /\ ~IsString(modelId)

\* pick(modelId) under the environment conf, for a modelId it does not throw on;
\* a field the descriptor does not have is "undefined" or the empty string, and
\* AIDA_AUTH_MODE is written in lower case
pick(conf, modelId) ==
    LET m == toLowerCase(Or(modelId, JStr(Lit(""))).s)
    IN  IF m = Lit("aida") THEN
            [name |-> "aida", base |-> trimBase(conf.AIDA_BASE_URL),
             openai |-> conf.AIDA_OPENAI, mode |-> conf.AIDA_MODE, path |-> AIDA_PATH,
             authMode |-> IF conf.AIDA_AUTH_MODE = "" THEN "public" ELSE conf.AIDA_AUTH_MODE,
             keyPublic |-> conf.AIDA_PUBLIC_KEY, keyInternal |-> conf.AIDA_INTERNAL_KEY,
             reqField |-> "input", respPath |-> << "data", ".", "text" >>]
        ELSE IF m = Lit("lab") THEN
            [name |-> "lab",
             base |-> trimBase(IF conf.LAB_MCP_BASE_URL # << >> THEN conf.LAB_MCP_BASE_URL
                               ELSE LabDefaultBase),
             openai |-> FALSE, mode |-> "mcp", path |-> LAB_MCP_PATH,
             authMode |-> "undefined", keyPublic |-> << >>, keyInternal |-> << >>,
             reqField |-> "prompt", respPath |-> LAB_MCP_RESP_PATH]
        ELSE
            [name |-> "arkaios", base |-> trimBase(conf.ARKAIOS_BASE_URL),
             openai |-> conf.ARKAIOS_OPENAI, mode |-> "undefined", path |-> ARKAIOS_PATH,
             authMode |-> "undefined", keyPublic |-> << >>,
             keyInternal |-> conf.ARKAIOS_INTERNAL_KEY,
             reqField |-> ARKAIOS_REQ_FIELD, respPath |-> ARKAIOS_RESP_PATH]

(* -------------------------- outbound requests ------------------------ *)

\* { 'content-type': 'application/json', ...(key ? { authorization: `Bearer ${key}` } : {}) }
JsonHeaders(key) ==
    [content_type |-> "application/json",
     authorization |-> IF key # << >> THEN JStr(Lit("Bearer ") \o key) ELSE Undef]

\* b.authMode === 'public' ? b.keyPublic : b.keyInternal
GatewayKey(b) == IF b.authMode = "public" THEN b.keyPublic ELSE b.keyInternal

\* The url and init handed to fetchWithRetry, with its label; b is a backend
\* descriptor and body the value whose JSON.stringify is sent.
OpenAIRequest_LastMessageOnly(b, ep, messages, prompt, stream) ==
    [backend |-> b.name, label |-> "openai",
     url |-> b.base \o Lit("/v1/chat/completions"), method |-> "POST",
     headers |-> JsonHeaders(b.keyInternal),
     body |-> IF ep = "chat"
              THEN JObj(<< KV("model", JStr(Lit(b.name))),
                           KV("messages", JArr(IF messages.a = << >> THEN << >>
                                               ELSE << messages.a[Len(messages.a)] >>)),
                           KV("stream", JBool(stream)) >>)
              ELSE JObj(<< KV("model", JStr(Lit(b.name))), KV("prompt", JStr(prompt)),
                           KV("stream", JBool(stream)) >>)]

OpenAIRequest(b, ep, messages, prompt, stream) ==
    [backend |-> b.name, label |-> "openai",
     url |-> b.base \o Lit("/v1/chat/completions"), method |-> "POST",
     headers |-> JsonHeaders(b.keyInternal),
     body |-> IF ep = "chat"
              THEN JObj(<< KV("model", JStr(Lit(b.name))), KV("messages", messages),
                           KV("stream", JBool(stream)) >>)
              ELSE JObj(<< KV("model", JStr(Lit(b.name))), KV("prompt", JStr(prompt)),
                           KV("stream", JBool(stream)) >>)]

GatewayRequest(b, label, objective) ==
    [backend |-> b.name, label |-> label, url |-> b.base \o b.path, method |-> "POST",
     headers |-> JsonHeaders(GatewayKey(b)),
     body |-> JObj(<< KV("agent_id", JStr(AIDA_AGENT_ID)), KV("action", JStr(AIDA_ACTION)),
                      KV("params", JObj(<< KV(AIDA_OBJECTIVE_FIELD, JStr(objective)) >>)) >>)]

callMCPRequest(b, payload) ==
    [backend |-> b.name, label |-> "mcp", url |-> b.base \o b.path, method |-> "POST",
     headers |-> JsonHeaders(<< >>),
     body |-> JObj(<< KV("command", JStr(Lit("arkaios.chat"))),
                      KV("params", JObj(<< KV("prompt", JStr(payload)) >>)) >>)]

callCustomRequest(b, payload) ==
    [backend |-> b.name, label |-> "custom", url |-> b.base \o b.path, method |-> "POST",
     headers |-> JsonHeaders(b.keyInternal),
     body |-> JObj(<< KV(b.reqField, JStr(payload)), KV("model", JStr(Lit("custom"))) >>)]

\* Variant of Refetch: the url of a retry carries the number of the attempt
Refetch_Stamped(request, att) ==
    IF att = 1 THEN request
    ELSE [request EXCEPT !.url = @ \o Lit("?retry=") \o Lit(ToString(att))]

\* fetch(url, init) of the loop's iteration att: the url and init that
\* fetchWithRetry was called with
Refetch(request, att) == request

(* ----------------------------- extraction ---------------------------- *)

\* An upstream body: its text and, when the text is valid JSON, its parse.
JsonBody(v) == [isJson |-> TRUE, text |-> Stringify(v), json |-> v]
RawBody(s) == [isJson |-> FALSE, text |-> s, json |-> Undef]

\* A JSON text that JSON.stringify does not give back from its parse: the
\* text ends with a line feed
PaddedBody(v) == [isJson |-> TRUE, text |-> Stringify(v) \o NL, json |-> v]

\* a || b || c || d
Or4(a, b, c, d) == Or(Or(Or(a, b), c), d)

RECURSIVE NumberedFrom(_, _)
\* steps.map((s, i) => `${i + 1}. ${...}`), from index i on
NumberedFrom(steps, i) ==
    IF i > Len(steps) THEN << >>
    ELSE << Lit(ToString(i)) \o Lit(". ")
            \o (IF IsString(steps[i]) THEN steps[i].s ELSE Stringify(steps[i])) >>
         \o NumberedFrom(steps, i + 1)

\* The parts array of the "humanised" output, and its rendering.
Parts(objective, picked, note, steps, origin) ==
    (IF Truthy(objective) THEN << Lit("Objetivo: ") \o ToStr(objective) >> ELSE << >>)
    \o (IF IsString(picked) /\ Truthy(picked) THEN << picked.s >>
        ELSE IF Truthy(note) THEN << ToStr(note) >> ELSE << >>)
    \o (IF steps.t = "arr" /\ steps.a # << >>
        THEN << JoinStr(NumberedFrom(steps.a, 1), NL) >> ELSE << >>)
    \o (IF Truthy(origin) THEN << Lit("via: ") \o ToStr(origin) >> ELSE << >>)

Rendered(parts, picked, j) ==
    IF parts # << >> THEN JStr(JoinStr(parts, NL))
    ELSE IF IsString(picked) THEN picked ELSE JStr(Stringify(j))

StepsOf(p) ==
    Or4(dotGet(p, << "result", ".", "steps" >>), dotGet(p, << "steps" >>),
        dotGet(p, << "result", ".", "plan" >>), dotGet(p, << "plan" >>))

NoteOf(p) ==
    Or4(dotGet(p, << "result", ".", "note" >>), OptProp(p, "note"),
        dotGet(p, << "data", ".", "text" >>), OptProp(p, "text"))

\* j.text || j.reply || j.response || j.content || JSON.stringify(j), j not null
FixedFields(j) ==
    Or(Or4(Prop(j, "text"), Prop(j, "reply"), Prop(j, "response"), Prop(j, "content")),
       JStr(Stringify(j)))

\* picked.trim() ? picked : buildDegradedText(prompt), for via === 'degraded'
DegradedOr(picked, prompt) ==
    IF IsString(picked) /\ ~IsBlank(picked.s) THEN picked
    ELSE JStr(buildDegradedText(prompt))

IsDegradedMark(via) == via = JStr(Lit("degraded"))

\* Variant of HumanizeAida: the steps are left out
HumanizeAida_NoSteps(body) ==
    IF ~body.isJson THEN JStr(body.text)
    ELSE LET j == body.json
             objective == Or(dotGet(j, << "result", ".", "params", ".", AIDA_OBJECTIVE_FIELD >>),
                             dotGet(j, << "params", ".", AIDA_OBJECTIVE_FIELD >>))
             picked == Or(pickPath(j, AIDA_RESP_PATH), OptProp(j, "content"))
         IN  Rendered(Parts(objective, picked, NoteOf(j), Undef, Undef), picked, j)

\* The AIDA gateway output (the same code in both endpoints and in the fallback)
HumanizeAida(body) ==
    IF ~body.isJson THEN JStr(body.text)
    ELSE LET j == body.json
             objective == Or(dotGet(j, << "result", ".", "params", ".", AIDA_OBJECTIVE_FIELD >>),
                             dotGet(j, << "params", ".", AIDA_OBJECTIVE_FIELD >>))
             picked == Or(pickPath(j, AIDA_RESP_PATH), OptProp(j, "content"))
         IN  Rendered(Parts(objective, picked, NoteOf(j), StepsOf(j), Undef), picked, j)

\* Variant of CustomExtract: the output starts empty, not as the raw text
CustomExtract_EmptyUnlessJson(body, respPath) ==
    IF ~body.isJson THEN JStr(Lit(""))
    ELSE LET j == body.json
             picked == pickPath(j, respPath)
         IN  IF IsString(picked) THEN picked
             ELSE IF IsNullish(j) THEN JStr(body.text)
             ELSE FixedFields(j)

\* The custom branch; j.text on null throws and the catch keeps the raw text
CustomExtract(body, respPath) ==
    IF ~body.isJson THEN JStr(body.text)
    ELSE LET j == body.json
             picked == pickPath(j, respPath)
         IN  IF IsString(picked) THEN picked
             ELSE IF IsNullish(j) THEN JStr(body.text)
             ELSE FixedFields(j)

\* Variant of LabFallbackExtract: only the configured paths are tried
LabFallbackExtract_PathsOnly(body, respPath, lastPrompt) ==
    IF ~body.isJson THEN JStr(body.text)
    ELSE LET picked == pickPath(body.json, respPath)
         IN  IF IsString(picked) THEN picked ELSE JStr(Stringify(body.json))

\* fallbackArkaiosToLab
LabFallbackExtract(body, respPath, lastPrompt) ==
    IF ~body.isJson \/ IsNullish(body.json) THEN JStr(body.text)
    ELSE LET j == body.json
             picked == pickPath(j, respPath \o << "|", "result", ".", "reply", ".", "message",
                                               "|", "reply", ".", "message", "|", "message" >>)
             via == Or(dotGet(j, << "result", ".", "via" >>), Prop(j, "via"))
         IN  IF IsDegradedMark(via) THEN DegradedOr(picked, lastPrompt)
             ELSE IF IsString(picked) THEN picked ELSE FixedFields(j)

LabPayload(j) ==
    Or4(dotGet(j, << "result", ".", "reply" >>), Prop(j, "reply"), Prop(j, "result"), j)

LabDirectPaths(respPath) ==
    respPath \o << "|", "message", "|", "result", ".", "message", "|", "reply", ".", "message" >>

\* model=lab on /v1/chat/completions
LabChatExtract(body, respPath, last) ==
    IF ~body.isJson \/ IsNullish(body.json) THEN JStr(body.text)
    ELSE LET j == body.json
             origin == Or(Or(dotGet(j, << "result", ".", "via" >>), Prop(j, "via")), Undef)
             payload == LabPayload(j)
             objective == Or(dotGet(payload, << "result", ".", "params", ".", "objective" >>),
                             dotGet(payload, << "params", ".", "objective" >>))
             picked == Or(pickPath(payload, LabDirectPaths(respPath)), OptProp(payload, "content"))
         IN  IF IsDegradedMark(origin) THEN DegradedOr(picked, last)
             ELSE Rendered(Parts(objective, picked, NoteOf(payload), StepsOf(payload), origin),
                           picked, j)

\* model=lab on /v1/completions
LabCompletionsExtract(body, respPath, prompt) ==
    IF ~body.isJson \/ IsNullish(body.json) THEN JStr(body.text)
    ELSE LET j == body.json
             picked == pickPath(LabPayload(j), LabDirectPaths(respPath))
             via == Or(dotGet(j, << "result", ".", "via" >>), Prop(j, "via"))
         IN  IF IsDegradedMark(via) THEN DegradedOr(picked, prompt)
             ELSE IF IsString(picked) THEN picked ELSE FixedFields(j)

(* ------------------------------- state ------------------------------- *)

VARIABLES
    env,       \* process.env as read at start-up
    pc,        \* "idle", "inflight" (await fetch), "sleeping" (await sleep), "done"
    h,         \* the live locals of the endpoint handler that is running
    call,      \* the url and init of the fetchWithRetry invocation that is running
    attempt,   \* its loop variable
    hist,      \* of the latest invocation that got an outcome: the number n of
               \* outcomes, and whether each of them was a response with status 429
    lastWait,  \* the waitMs it sleeps for, with the values it was computed from
    sleeps,    \* the number of sleeps of the running invocation
    calls,     \* the outbound requests made for this inbound request: the url and
               \* init of each fetch
    runs,      \* the fetchWithRetry invocations made for it, with their results
    got,       \* the response that fetchWithRetry returned last
    resp,      \* the HTTP response sent to the client
    sent,      \* the number of responses sent for this inbound request
    suspended, \* the same, pc to sent, of a second chat/completions request, which
               \* is suspended at an await (or not started, or answered) while the
               \* event loop runs the first
    latestSnapshot,  \* let latestSnapshot
    remoteSessions,  \* const remoteSessions = new Map(), as a function of its keys
    remoteFrames,    \* const remoteFrames = new Map(), as a function of its keys
    reply,     \* the response of the latest request answered by the middleware or
               \* by a handler that awaits nothing (snapshot store, remote desktop,
               \* models, health)
    probe,     \* the arguments and the result of a helper applied on its own
    lastReq    \* the latest inbound request: its route, its Authorization header,
               \* its sessionId, and whether its handler was reached

vars == << env, pc, h, call, attempt, hist, lastWait, sleeps, calls, runs, got, resp, sent,
           suspended, latestSnapshot, remoteSessions, remoteFrames, reply, probe, lastReq >>

\* The module-level mutable state of server.js
store == << latestSnapshot, remoteSessions, remoteFrames >>

\* What no step of a chat/completions handler assigns
aside == << suspended, latestSnapshot, remoteSessions, remoteFrames, reply, probe >>

\* Bounds of the model
MaxEnvAttempts == 4
MaxMessages == 2

\* What no handler that awaits nothing assigns
awaiting == << env, pc, h, call, attempt, hist, lastWait, sleeps, calls, runs, got, resp, sent,
               suspended, probe >>

NoFrame == [stage |-> "none"]
NoPrev == [route |-> "none", sessionId |-> Undef]
NoRequest ==
    [route |-> "none", authorization |-> Undef, sessionId |-> Undef, seq |-> 0,
     prev |-> NoPrev, reached |-> FALSE]
NoCall == [backend |-> "none"]
NoWait == [attempt |-> 0]
NoResp == [status |-> 0]
NoneGot == [status |-> 0]
Pending == [pending |-> TRUE]

Outcome(status) == [thrown |-> FALSE, status |-> status]
Thrown == [thrown |-> TRUE, status |-> 0]

NoHist == [n |-> 0, all429 |-> TRUE]
\* hist extended by one outcome; the first attempt starts a new history
Record(hs, att, outcome) ==
    [n |-> (IF att = 1 THEN 0 ELSE hs.n) + 1,
     all429 |-> (att = 1 \/ hs.all429) /\ ~outcome.thrown /\ outcome.status = 429]

maxAttempts == asInt(env.UPSTREAM_MAX_ATTEMPTS, 4)
baseDelay == asInt(env.UPSTREAM_RETRY_BASE_MS, 700)
maxDelay == asInt(env.UPSTREAM_RETRY_MAX_MS, 8000)

(* ------------------------------- inputs ------------------------------ *)

Unset == [t |-> "unset"]

\* The model field of the request body: identifiers in several cases, an
\* unknown identifier, the empty string, null, a number, and no field at all
ModelIds ==
    {JStr(Lit(id)) : id \in {"arkaios", "aida", "AIDA", "lab", "Lab", "gpt-4", ""}}
    \cup {Undef, JNull, JNum(7)}
Prompts == {Lit(""), Lit("hola")}
Statuses == {200, 304, 403, 404, 429, 500}
Jitters == {0, 249}
RetryAfterHeaders ==
    {[kind |-> "none"], [kind |-> "junk"],
     [kind |-> "secs", tenths |-> 0], [kind |-> "secs", tenths |-> 5005],
     [kind |-> "date", diff |-> -1000], [kind |-> "date", diff |-> 9000]}

Message(role, content) == JObj(<< KV("role", JStr(Lit(role))), KV("content", JStr(content)) >>)

\* The messages arrays of length at most MaxMessages; the last content is a prompt
MessageLists ==
    { << >> } \cup
    UNION { { [i \in 1..n |-> IF i = n THEN Message("user", p)
                              ELSE Message("system", Lit("ctx"))] : p \in Prompts }
            : n \in 1..MaxMessages }

\* Bodies of failing responses: short, and longer than the 600 characters kept
ErrBodies == {RawBody(Lit("denied")), RawBody(Filler(601))}

OkJson ==
    { JObj(<< KV("data", JObj(<< KV("text", JStr(Lit("OK"))) >>)) >>),
      JObj(<< KV("result", JObj(<< KV("text", JStr(Lit("OK"))) >>)) >>),
      JObj(<< KV("reply", JStr(Lit("OK"))) >>),
      JObj(<< KV("result", JObj(<< KV("via", JStr(Lit("degraded"))) >>)) >>),
      JObj(<< KV("result", JObj(<< KV("via", JStr(Lit("degraded"))),
                                   KV("reply", JObj(<< KV("message", JStr(Lit("OK"))) >>)) >>)) >>),
      JObj(<< KV("result", JObj(<< KV("note", JStr(Lit("nota"))),
                                   KV("steps", JArr(<< JStr(Lit("uno")), JNum(2) >>)),
                                   KV("params", JObj(<< KV("objective", JStr(Lit("hola"))) >>)) >>)) >>),
      JObj(<< KV("result", JObj(<< KV("via", JStr(Lit("degraded"))) >>)),
              KV("message", JStr(Lit("M"))) >>),
      JObj(<< KV("text", JObj(<< KV("a", JNum(1)) >>)) >>),
      JObj(<< KV("x", JNum(1)) >>),
      JNull }

OkBodies == {RawBody(Lit("OK"))} \cup {JsonBody(v) : v \in OkJson}

BodiesFor(status) == IF status >= 200 /\ status <= 299 THEN OkBodies ELSE ErrBodies

\* The bodies an upstream may answer a request with: those of BodiesFor and,
\* from an OpenAI-compatible upstream that succeeds, the echo of the request
ResponseBodies(status, request) ==
    BodiesFor(status)
    \cup (IF status >= 200 /\ status <= 299 /\ request.label = "openai"
          THEN {JsonBody(request.body)} ELSE {})

BaseUrls(name) == {Lit(""), Lit("http://" \o name) \o Lit("/")}

\* Deployments that differ in the backends, with the retry policy at its
\* defaults, no PROXY_API_KEY, a key for arkaios and none for aida
BackendEnvs ==
    { [ARKAIOS_BASE_URL |-> ab, ARKAIOS_OPENAI |-> ao, AIDA_BASE_URL |-> ib,
       AIDA_OPENAI |-> im = "openai", AIDA_MODE |-> im, LAB_MCP_BASE_URL |-> lb,
       UPSTREAM_MAX_ATTEMPTS |-> Unset, UPSTREAM_RETRY_BASE_MS |-> Unset,
       UPSTREAM_RETRY_MAX_MS |-> Unset, PROXY_API_KEY |-> Lit(""),
       ARKAIOS_INTERNAL_KEY |-> Lit("sk-arkaios"), AIDA_INTERNAL_KEY |-> Lit(""),
       AIDA_PUBLIC_KEY |-> Lit("pk-aida"), AIDA_AUTH_MODE |-> "internal"] :
        ab \in BaseUrls("arkaios"), ao \in BOOLEAN, ib \in BaseUrls("aida"),
        im \in {"gateway", "custom", "openai"}, lb \in {Lit(""), Lit("/")} }

\* Deployments that differ in the retry policy, with arkaios and aida
\* configured, no PROXY_API_KEY and a public key for aida
RetryEnvs ==
    { [ARKAIOS_BASE_URL |-> Lit("http://arkaios"), ARKAIOS_OPENAI |-> FALSE,
       AIDA_BASE_URL |-> Lit("http://aida"), AIDA_OPENAI |-> FALSE,
       AIDA_MODE |-> "custom", LAB_MCP_BASE_URL |-> Lit("/"),
       UPSTREAM_MAX_ATTEMPTS |-> ma, UPSTREAM_RETRY_BASE_MS |-> bd,
       UPSTREAM_RETRY_MAX_MS |-> md, PROXY_API_KEY |-> Lit(""),
       ARKAIOS_INTERNAL_KEY |-> Lit(""), AIDA_INTERNAL_KEY |-> Lit("sk-aida"),
       AIDA_PUBLIC_KEY |-> Lit("pk-aida"), AIDA_AUTH_MODE |-> "public"] :
        ma \in {Unset, JNum(0)} \cup {JNum(n) : n \in 1..MaxEnvAttempts},
        bd \in {Unset, JNum(3000)}, md \in {Unset, JNum(1000)} }

\* A deployment with no variable set
DefaultEnv ==
    [ARKAIOS_BASE_URL |-> Lit(""), ARKAIOS_OPENAI |-> FALSE, AIDA_BASE_URL |-> Lit(""),
     AIDA_OPENAI |-> FALSE, AIDA_MODE |-> "gateway", LAB_MCP_BASE_URL |-> Lit(""),
     UPSTREAM_MAX_ATTEMPTS |-> Unset, UPSTREAM_RETRY_BASE_MS |-> Unset,
     UPSTREAM_RETRY_MAX_MS |-> Unset, PROXY_API_KEY |-> Lit(""),
     ARKAIOS_INTERNAL_KEY |-> Lit(""), AIDA_INTERNAL_KEY |-> Lit(""),
     AIDA_PUBLIC_KEY |-> Lit(""), AIDA_AUTH_MODE |-> "internal"]

(* ------------------------------ responses ---------------------------- *)

IsOk(status) == status >= 200 /\ status <= 299

\* res.json(toOpenAIChat(text)) and the text_completion object of /v1/completions
Completion(ep, text) ==
    [status |-> 200, kind |-> IF ep = "chat" THEN "chat.completion" ELSE "text_completion",
     text |-> text]

\* `Backend ${name} ${status} @ ${url}`
BackendError(name, status, url) ==
    Lit("Backend ") \o Lit(name) \o Lit(" ") \o Lit(ToString(status)) \o Lit(" @ ") \o url

\* res.status(502).json({ error, body: text.slice(0, 600) })
GatewayError(name, r, url) ==
    [status |-> 502, kind |-> "error", error |-> BackendError(name, r.status, url),
     upstream |-> r.status, body |-> Slice0(r.body.text, 600)]

\* res.status(502).json({ error, body, fallback_error, fallback_lab_error })
FallbackError(p, fb, fl) ==
    [status |-> 502, kind |-> "error", error |-> BackendError("arkaios", p.status, p.url),
     upstream |-> p.status, body |-> Slice0(p.text, 600),
     fallback_error |-> fb, fallback_lab_error |-> fl]

ServerError(message) == [status |-> 500, kind |-> "error", error |-> message]

\* res.send(dataText) of the OpenAI passthrough
Passthrough(status, contentType, dataText) ==
    [status |-> status, kind |-> "raw", contentType |-> contentType, data |-> dataText]

\* Variant of InlineDegraded: the prompt is left out
InlineDegraded_NoPrompt(last) == buildDegradedText(Lit(""))

\* The degraded message built inline by the custom branch
InlineDegraded(last) ==
    JoinStr(<< Lit("Servicio temporalmente saturado (rate-limit en proveedores)."),
               Lit("Tu solicitud fue recibida y el sistema esta en modo degradado."),
               Lit("Prompt: ") \o (IF last # << >> THEN last ELSE Lit("(vacio)")),
               Lit("Sugerencia: reintentar en 30-90 segundos.") >>, NL)

\* Number(x.status) === 429 for a fallback result; the status of a skipped tier
\* is undefined. orElse is the value of `x.status || orElse`, 0 when there is none.
StatusIs429(x, orElse) ==
    IF "status" \in DOMAIN x THEN x.status = 429 ELSE orElse = 429

\* Variants of FallbackTrigger: every retryable status, every failing status
FallbackTrigger_AnyRetryable(name, status) == name = "arkaios" /\ shouldRetryStatus(status)
FallbackTrigger_AnyFailure(name, status) == name = "arkaios"

\* Variant of FallbackTrigger: only the chat endpoint falls back
FallbackTrigger_ChatOnly(name, status) == name = "arkaios" /\ status = 429 /\ h.ep = "chat"

\* if (b.name === 'arkaios' && status === 429), on a failed custom call
FallbackTrigger(name, status) == name = "arkaios" /\ status = 429

\* if (!b.base), the check of both endpoint handlers
MissingBase_Never(b) == FALSE

MissingBase(b) == b.base = << >>

\* Variant of LabDegradedStatus: only a rate-limited lab is degraded
LabDegradedStatus_Only429(status) == status = 429

\* if (Number(status) === 429 || Number(status) === 403), on a failed lab call
LabDegradedStatus(status) == status = 429 \/ status = 403

\* Variant of LabDegraded: the prompt is read from a variable the handlers share
LabDegraded_SharedPrompt(last) ==
    buildDegradedText(IF "last" \in DOMAIN suspended.h THEN suspended.h.last ELSE last)

\* buildDegradedText(last), the answer to a lab that is protected or saturated
LabDegraded(last) == buildDegradedText(last)

\* The decision taken once both fallbacks have failed
AfterBothFailed(ep, last, p, fb, fl) ==
    IF StatusIs429(fb, 0) /\ StatusIs429(fl, 429)
    THEN Completion(ep, JStr(InlineDegraded(last)))
    ELSE FallbackError(p, fb, fl)

(* ------------------------------ actions ------------------------------ *)

\* The running invocation ends with outcome ret (a response returned or an
\* error thrown); hs are the outcomes of its fetch calls.
EndRun(ret, hs) ==
    [runs EXCEPT ![Len(runs)] = [@ EXCEPT !.attempts = hs.n, !.ret = ret]]

\* Variant of Reply: the response is sent a second time
Reply_Twice(r, done) ==
    /\ resp' = r
    /\ sent' = sent + 2
    /\ pc' = "done"
    /\ call' = NoCall
    /\ attempt' = 0
    /\ lastWait' = NoWait
    /\ runs' = done
    /\ UNCHANGED << calls, sleeps >>

\* The handler sends response r and returns.
Reply(r, done) ==
    /\ resp' = r
    /\ sent' = sent + 1
    /\ pc' = "done"
    /\ call' = NoCall
    /\ attempt' = 0
    /\ lastWait' = NoWait
    /\ runs' = done
    /\ UNCHANGED << calls, sleeps >>

\* fetchWithRetry(url, init, label) is entered and issues its first fetch.
StartRun(request, done) ==
    /\ call' = request
    /\ attempt' = 1
    /\ lastWait' = NoWait
    /\ sleeps' = 0
    /\ calls' = Append(calls, Refetch(request, 1))
    /\ runs' = Append(done, [backend |-> request.backend, request |-> request,
                             attempts |-> 0, ret |-> Pending])
    /\ pc' = "inflight"
    /\ UNCHANGED << resp, sent >>

\* Variant of EnterLabFallback: the second fallback contacts aida once more
EnterLabFallback_AidaAgain(frame, done) ==
    /\ h' = [frame EXCEPT !.stage = "fbLab"]
    /\ StartRun(GatewayRequest(pick(env, JStr(Lit("aida"))), "aida-fallback", frame.last), done)

\* fallbackArkaiosToLab(lastPrompt), up to its await
EnterLabFallback(frame, done) ==
    LET l == pick(env, JStr(Lit("lab")))
        fl == [ok |-> FALSE, reason |-> "lab_mcp_unavailable"]
    IN  IF l.base = << >> \/ l.mode # "mcp"
        THEN /\ h' = [frame EXCEPT !.fl = fl]
             /\ Reply(AfterBothFailed(frame.ep, frame.last, frame.p, frame.fb, fl), done)
        ELSE /\ h' = [frame EXCEPT !.stage = "fbLab"]
             /\ StartRun(callMCPRequest(l, frame.last), done)

\* fallbackArkaiosToAida(lastPrompt), up to its await
EnterAidaFallback(frame, done) ==
    LET a == pick(env, JStr(Lit("aida")))
    IN  IF a.base = << >> \/ a.mode # "gateway"
        THEN EnterLabFallback([frame EXCEPT
                 !.fb = [ok |-> FALSE, reason |-> "aida_gateway_unavailable"]], done)
        ELSE /\ h' = [frame EXCEPT !.stage = "fbAida"]
             /\ StartRun(GatewayRequest(a, "aida-fallback", frame.last), done)

\* The endpoint handlers from their entry to their first await
Receive(ep, model, messages, prompt, stream) ==
    /\ pc = "idle"
    /\ got' = got
    /\ LET modelId == IF model = Undef THEN JStr(Lit("arkaios")) ELSE model
           b == pick(env, modelId)
           last == IF ep = "completions" THEN prompt
                   ELSE IF Len(messages.a) > 0
                        THEN Prop(messages.a[Len(messages.a)], "content").s ELSE Lit("")
           frame == [stage |-> "custom", ep |-> ep, b |-> b, last |-> last,
                     stream |-> b.openai /\ stream, p |-> Undef, fb |-> Undef, fl |-> Undef]
       IN  IF pickThrows(modelId)
           THEN /\ h' = [stage |-> "pick", ep |-> ep, model |-> model]
                /\ Reply(ServerError(Lit("(modelId || \"\").toLowerCase is not a function")),
                         << >>)
           ELSE IF MissingBase(b)
           THEN /\ h' = [frame EXCEPT !.stage = "config"]
                /\ Reply(ServerError(Lit("Missing base URL for ") \o Lit(b.name)), << >>)
           ELSE IF b.openai
           THEN /\ h' = [stage |-> "openai", ep |-> ep, b |-> b, last |-> last,
                           stream |-> stream, p |-> Undef, fb |-> Undef, fl |-> Undef,
                           messages |-> IF ep = "chat" THEN messages ELSE Undef,
                           prompt |-> IF ep = "completions" THEN JStr(prompt) ELSE Undef]
                /\ StartRun(OpenAIRequest(b, ep, messages, prompt, stream), << >>)
           ELSE IF b.name = "aida" /\ b.mode = "gateway"
           THEN /\ h' = [frame EXCEPT !.stage = "gateway"]
                /\ StartRun(GatewayRequest(b, "aida-gateway", last), << >>)
           ELSE IF b.name = "lab" /\ b.mode = "mcp"
           THEN /\ h' = [frame EXCEPT !.stage = "mcp"]
                /\ StartRun(callMCPRequest(b, last), << >>)
           ELSE /\ h' = frame
                /\ StartRun(callCustomRequest(b, last), << >>)
    /\ hist' = NoHist
    /\ UNCHANGED << env, aside >>

\* The handler resumes with the response r = [status, body] that fetchWithRetry
\* returned; done is the record of the invocations with this one ended.
Resume(r, done) ==
    /\ got' = r
    /\ CASE h.stage = "openai" ->
               /\ h' = h
               /\ Reply(IF h.ep = "chat" /\ h.stream
                        THEN Passthrough(200, "text/event-stream", r.body.text)
                        ELSE IF IsOk(r.status)
                             THEN Passthrough(200, "application/json", r.body.text)
                             ELSE Passthrough(r.status, "text/html", r.body.text), done)
         [] h.stage = "gateway" ->
               /\ h' = h
               /\ Reply(IF ~IsOk(r.status) THEN GatewayError("aida", r, call.url)
                        ELSE Completion(h.ep, HumanizeAida(r.body)), done)
         [] h.stage = "mcp" ->
               /\ h' = h
               /\ Reply(IF ~IsOk(r.status)
                        THEN IF LabDegradedStatus(r.status)
                             THEN Completion(h.ep, JStr(LabDegraded(h.last)))
                             ELSE GatewayError("lab", r, call.url)
                        ELSE IF h.ep = "chat"
                             THEN Completion(h.ep, LabChatExtract(r.body, h.b.respPath, h.last))
                             ELSE Completion(h.ep, LabCompletionsExtract(r.body, h.b.respPath, h.last)),
                        done)
         [] h.stage = "custom" ->
               IF ~IsOk(r.status)
               THEN IF FallbackTrigger(h.b.name, r.status)
                    THEN EnterAidaFallback([h EXCEPT
                             !.p = [status |-> r.status, text |-> r.body.text, url |-> call.url]],
                             done)
                    ELSE /\ h' = h
                         /\ Reply(GatewayError(h.b.name, r, call.url), done)
               ELSE /\ h' = h
                    /\ Reply(Completion(h.ep, CustomExtract(r.body, h.b.respPath)), done)
         [] h.stage = "fbAida" ->
               IF ~IsOk(r.status)
               THEN EnterLabFallback([h EXCEPT
                        !.fb = [ok |-> FALSE, status |-> r.status,
                                body |-> Slice0(r.body.text, 600)]], done)
               ELSE LET fb == [ok |-> TRUE, text |-> HumanizeAida(r.body)]
                    IN  /\ h' = [h EXCEPT !.fb = fb]
                        /\ Reply(Completion(h.ep, fb.text), done)
         [] h.stage = "fbLab" ->
               IF ~IsOk(r.status)
               THEN LET fl == [ok |-> FALSE, status |-> r.status,
                               body |-> Slice0(r.body.text, 600), url |-> call.url]
                    IN  /\ h' = [h EXCEPT !.fl = fl]
                        /\ Reply(AfterBothFailed(h.ep, h.last, h.p, h.fb, fl), done)
               ELSE LET fl == [ok |-> TRUE,
                               text |-> LabFallbackExtract(r.body, pick(env, JStr(Lit("lab"))).respPath, h.last)]
                    IN  /\ h' = [h EXCEPT !.fl = fl]
                        /\ Reply(Completion(h.ep, fl.text), done)

\* Variant of Catch: a thrown error is answered with the degraded text
Catch_AsDegraded(message, done) ==
    /\ h' = h
    /\ got' = got
    /\ Reply(Completion(h.ep, JStr(buildDegradedText(h.last))), done)

\* The catch block of the endpoint handlers
Catch(message, done) ==
    /\ h' = h
    /\ got' = got
    /\ Reply(ServerError(message), done)

\* Variant of ReturnNow: a retryable status is retried on the last attempt too
ReturnNow_RetryableNeverReturned(status, att) == ~shouldRetryStatus(status)

\* if (!shouldRetryStatus(res.status) || attempt === maxAttempts) return res
ReturnNow(status, att) == ~shouldRetryStatus(status) \/ att = maxAttempts

\* Variant of RethrowNow: a thrown error is never retried
RethrowNow_Always(att) == TRUE

\* if (attempt === maxAttempts) throw error
RethrowNow(att) == att = maxAttempts

\* The awaited fetch resolves with a response; fetchWithRetry returns it or
\* goes to sleep before the next attempt.
UpstreamResponds(status) ==
    /\ pc = "inflight"
    /\ hist' = Record(hist, attempt, Outcome(status))
    /\ IF ReturnNow(status, attempt)
       THEN \E body \in ResponseBodies(status, call) :
                Resume([status |-> status, body |-> body], EndRun(Outcome(status), hist'))
       ELSE \E header \in RetryAfterHeaders, jitter \in Jitters :
                LET hinted == retryAfterMs(header)
                    backoff == Backoff(maxDelay, baseDelay, attempt)
                IN  /\ lastWait' = [attempt |-> attempt, cause |-> Outcome(status),
                                    hinted |-> hinted, backoff |-> backoff, jitter |-> jitter,
                                    waitMs |-> WaitAfterResponse(hinted, backoff, jitter)]
                    /\ sleeps' = sleeps + 1
                    /\ pc' = "sleeping"
                    /\ UNCHANGED << h, call, attempt, calls, runs, got, resp, sent >>
    /\ UNCHANGED << env, aside, lastReq >>

\* The awaited fetch rejects (connection error): rethrown on the last attempt,
\* and then caught by the handler, else followed by a sleep.
UpstreamThrows ==
    /\ pc = "inflight"
    /\ hist' = Record(hist, attempt, Thrown)
    /\ IF RethrowNow(attempt)
       THEN Catch(Lit("fetch failed"), EndRun(Thrown, hist'))
       ELSE \E jitter \in Jitters :
                LET backoff == Backoff(maxDelay, baseDelay, attempt)
                IN  /\ lastWait' = [attempt |-> attempt, cause |-> Thrown,
                                    hinted |-> JNull, backoff |-> backoff, jitter |-> jitter,
                                    waitMs |-> WaitAfterError(backoff, jitter)]
                    /\ sleeps' = sleeps + 1
                    /\ pc' = "sleeping"
                    /\ UNCHANGED << h, call, attempt, calls, runs, got, resp, sent >>
    /\ UNCHANGED << env, aside, lastReq >>

\* Variant of Wake: the next fetch is issued without awaiting the one in flight
Wake_WithoutAwait ==
    /\ pc \in {"sleeping", "inflight"}
    /\ attempt < maxAttempts
    /\ attempt' = attempt + 1
    /\ calls' = Append(calls, Refetch(call, attempt + 1))
    /\ lastWait' = NoWait
    /\ pc' = "inflight"
    /\ UNCHANGED << env, h, call, hist, sleeps, runs, got, resp, sent, aside, lastReq >>

\* The sleep ends: the loop increments attempt and issues the next fetch.
Wake ==
    /\ pc = "sleeping"
    /\ attempt' = attempt + 1
    /\ calls' = Append(calls, Refetch(call, attempt + 1))
    /\ lastWait' = NoWait
    /\ pc' = "inflight"
    /\ UNCHANGED << env, h, call, hist, sleeps, runs, got, resp, sent, aside, lastReq >>

\* The response has been delivered; the server waits for the next request.
Finish ==
    /\ pc = "done"
    /\ pc' = "idle"
    /\ h' = NoFrame
    /\ hist' = NoHist
    /\ sleeps' = 0
    /\ calls' = << >>
    /\ runs' = << >>
    /\ got' = NoneGot
    /\ resp' = NoResp
    /\ sent' = 0
    /\ UNCHANGED << env, call, attempt, lastWait, aside, lastReq >>

\* An inbound request on route with the header authorization, for a sessionId
\* when the route has one
Request(route, authorization, sessionId) ==
    [route |-> route, authorization |-> authorization, sessionId |-> sessionId, seq |-> 0,
     prev |-> NoPrev, reached |-> FALSE]

\* The same, told from the request before it by seq
Numbered(route, authorization, sessionId) ==
    [Request(route, authorization, sessionId) EXCEPT !.seq = 1 - lastReq.seq]

\* The same, with the route and sessionId of the request before it
Chained(route, authorization, sessionId) ==
    [Request(route, authorization, sessionId) EXCEPT
        !.prev = [route |-> lastReq.route, sessionId |-> lastReq.sessionId]]

\* app.use('/v1', authMiddleware): the request rq reaches Handler when the
\* middleware calls next(), and is answered 401 by the middleware otherwise.
Through(rq, Handler) ==
    IF authMiddleware(env.PROXY_API_KEY, rq.authorization)
    THEN /\ Handler
         /\ lastReq' = [rq EXCEPT !.reached = TRUE]
    ELSE /\ reply' = [status |-> 401, error |-> "Invalid API key"]
         /\ lastReq' = rq
         /\ UNCHANGED << awaiting, latestSnapshot, remoteSessions, remoteFrames >>

\* A route registered outside /v1: no middleware stands before Handler
Public(rq, Handler) ==
    /\ Handler
    /\ lastReq' = [rq EXCEPT !.reached = TRUE]

\* The locals of a handler that has not started
IdleContext ==
    [pc |-> "idle", h |-> NoFrame, call |-> NoCall, attempt |-> 0, hist |-> NoHist,
     lastWait |-> NoWait, sleeps |-> 0, calls |-> << >>, runs |-> << >>, got |-> NoneGot,
     resp |-> NoResp, sent |-> 0]

NoMap == << >>
NoReply == [status |-> 0]
NoProbe == [fn |-> "none"]

\* The module-level state right after start-up
InitStore ==
    /\ suspended = IdleContext
    /\ latestSnapshot = JNull
    /\ remoteSessions = NoMap
    /\ remoteFrames = NoMap
    /\ reply = NoReply
    /\ lastReq = NoRequest

InitHandler ==
    /\ pc = "idle"
    /\ h = NoFrame
    /\ call = NoCall
    /\ attempt = 0
    /\ hist = NoHist
    /\ lastWait = NoWait
    /\ sleeps = 0
    /\ calls = << >>
    /\ runs = << >>
    /\ got = NoneGot
    /\ resp = NoResp
    /\ sent = 0

InitRequest == InitStore /\ InitHandler /\ probe = NoProbe

Init == env \in BackendEnvs /\ InitRequest

InitRetry == env \in RetryEnvs /\ InitRequest

Next ==
    \/ \E ep \in {"chat", "completions"}, model \in ModelIds, messages \in MessageLists,
          prompt \in Prompts, stream \in BOOLEAN :
           Through(Request(ep, Undef, Undef), Receive(ep, model, JArr(messages), prompt, stream))
    \/ \E status \in Statuses : UpstreamResponds(status)
    \/ UpstreamThrows
    \/ Wake
    \/ Finish

Spec == Init /\ [][Next]_vars

SpecRetry == InitRetry /\ [][Next]_vars

\* What the runtime guarantees: the timer of a sleep fires and a handler that
\* has answered returns. Nothing makes an upstream answer: fetch is given no
\* signal and no timeout, so an awaited fetch may stay pending forever.
SpecHang == InitRetry /\ [][Next]_vars /\ WF_vars(Wake) /\ WF_vars(Finish)

\* The same runtime with upstreams that answer or fail: every awaited fetch
\* resolves or rejects.
SpecSettled ==
    /\ Init /\ [][Next]_vars
    /\ WF_vars(Wake) /\ WF_vars(Finish)
    /\ WF_vars((\E status \in Statuses : UpstreamResponds(status)) \/ UpstreamThrows)

(* ------------------ concurrent requests, shared state ---------------- *)

\* The locals of the handler that is running
Context ==
    [pc |-> pc, h |-> h, call |-> call, attempt |-> attempt, hist |-> hist,
     lastWait |-> lastWait, sleeps |-> sleeps, calls |-> calls, runs |-> runs, got |-> got,
     resp |-> resp, sent |-> sent]

\* The event loop turns to the other chat/completions request: each handler
\* runs from one await to the next, and any of the two may be the next to run.
Switch ==
    /\ pc' = suspended.pc
    /\ h' = suspended.h
    /\ call' = suspended.call
    /\ attempt' = suspended.attempt
    /\ hist' = suspended.hist
    /\ lastWait' = suspended.lastWait
    /\ sleeps' = suspended.sleeps
    /\ calls' = suspended.calls
    /\ runs' = suspended.runs
    /\ got' = suspended.got
    /\ resp' = suspended.resp
    /\ sent' = suspended.sent
    /\ suspended' = Context
    /\ UNCHANGED << env, latestSnapshot, remoteSessions, remoteFrames, reply, probe, lastReq >>

\* Map.prototype.set(k, v)
MapSet(m, k, v) == [x \in DOMAIN m \cup {k} |-> IF x = k THEN v ELSE m[x]]

\* Bound: the frames accepted for one session
MaxFrames == 1

\* Variant of BackupStore: a stored snapshot is never replaced
BackupStore_KeepFirst(reqBody) ==
    LET body == Or(reqBody, JObj(<< >>))
        snapshot == Or(latestSnapshot, Or(Prop(body, "snapshot"), body))
    IN  /\ latestSnapshot' = snapshot
        /\ reply' = [status |-> 200, ok |-> TRUE, stored |-> TRUE,
                     approx_size_bytes |-> StrLen(Stringify(Or(snapshot, JObj(<< >>))))]
        /\ UNCHANGED << env, pc, h, call, attempt, hist, lastWait, sleeps, calls, runs, got,
                        resp, sent, suspended, remoteSessions, remoteFrames, probe >>

\* POST /v1/backup/store; reqBody is the parsed request body. The time stamp
\* ts of the response is left out.
BackupStore(reqBody) ==
    LET body == Or(reqBody, JObj(<< >>))
        snapshot == Or(Prop(body, "snapshot"), body)
    IN  /\ latestSnapshot' = snapshot
        /\ reply' = [status |-> 200, ok |-> TRUE, stored |-> TRUE,
                     approx_size_bytes |-> StrLen(Stringify(Or(snapshot, JObj(<< >>))))]
        /\ UNCHANGED << env, pc, h, call, attempt, hist, lastWait, sleeps, calls, runs, got,
                        resp, sent, suspended, remoteSessions, remoteFrames, probe >>

\* POST /v1/remote/session/start; startTime, a time, is left out of the record
RemoteSessionStart(sessionId, clientType) ==
    /\ IF ~Truthy(sessionId)
       THEN /\ reply' = [status |-> 400, error |-> "Missing sessionId"]
            /\ UNCHANGED remoteSessions
       ELSE /\ remoteSessions' = MapSet(remoteSessions, sessionId,
                                        [clientType |-> clientType, status |-> "active",
                                         frameCount |-> 0])
            /\ reply' = [status |-> 200, ok |-> TRUE, sessionId |-> sessionId]
    /\ UNCHANGED << env, pc, h, call, attempt, hist, lastWait, sleeps, calls, runs, got,
                    resp, sent, suspended, latestSnapshot, remoteFrames, probe >>

\* Variant of RemoteFrame: a frame is stored whether its session exists or not
RemoteFrame_NoSessionCheck(sessionId, frameData, width, height, timestamp) ==
    /\ sessionId \in DOMAIN remoteSessions => remoteSessions[sessionId].frameCount < MaxFrames
    /\ IF ~Truthy(sessionId) \/ ~Truthy(frameData)
       THEN /\ reply' = [status |-> 400, error |-> "Missing sessionId or frameData"]
            /\ UNCHANGED << remoteSessions, remoteFrames >>
       ELSE /\ remoteFrames' = MapSet(remoteFrames, sessionId,
                                      [frameData |-> frameData, width |-> width,
                                       height |-> height, timestamp |-> timestamp])
            /\ remoteSessions' =
                   IF sessionId \in DOMAIN remoteSessions
                   THEN [remoteSessions EXCEPT ![sessionId].frameCount = @ + 1]
                   ELSE remoteSessions
            /\ reply' = [status |-> 200, ok |-> TRUE, frameId |-> sessionId,
                         size |-> IF IsString(frameData) THEN JNum(StrLen(frameData.s))
                                  ELSE Undef]
    /\ UNCHANGED << env, pc, h, call, attempt, hist, lastWait, sleeps, calls, runs, got,
                    resp, sent, suspended, latestSnapshot, probe >>

\* POST /v1/remote/frame; receivedAt and lastFrame, times, are left out. A
\* session accepts at most MaxFrames frames.
RemoteFrame(sessionId, frameData, width, height, timestamp) ==
    /\ sessionId \in DOMAIN remoteSessions => remoteSessions[sessionId].frameCount < MaxFrames
    /\ IF ~Truthy(sessionId) \/ ~Truthy(frameData)
       THEN /\ reply' = [status |-> 400, error |-> "Missing sessionId or frameData"]
            /\ UNCHANGED << remoteSessions, remoteFrames >>
       ELSE IF sessionId \notin DOMAIN remoteSessions
       THEN /\ reply' = [status |-> 404, error |-> "Session not found"]
            /\ UNCHANGED << remoteSessions, remoteFrames >>
       ELSE /\ remoteFrames' = MapSet(remoteFrames, sessionId,
                                      [frameData |-> frameData, width |-> width,
                                       height |-> height, timestamp |-> timestamp])
            /\ remoteSessions' = [remoteSessions EXCEPT ![sessionId].frameCount = @ + 1]
            /\ reply' = [status |-> 200, ok |-> TRUE, frameId |-> sessionId,
                         size |-> IF IsString(frameData) THEN JNum(StrLen(frameData.s))
                                  ELSE Undef]
    /\ UNCHANGED << env, pc, h, call, attempt, hist, lastWait, sleeps, calls, runs, got,
                    resp, sent, suspended, latestSnapshot, probe >>

\* Map.prototype.delete(k)
MapDelete(m, k) == [x \in DOMAIN m \ {k} |-> m[x]]

\* GET /v1/remote/last-frame?sessionId=...; uptimeSeconds and receivedAt,
\* times, are left out
RemoteLastFrame(sessionId) ==
    /\ reply' =
          IF ~Truthy(sessionId) THEN [status |-> 400, error |-> "Missing sessionId"]
          ELSE IF sessionId \notin DOMAIN remoteFrames
          THEN [status |-> 404, error |-> "No frames available for this session"]
          ELSE LET frame == remoteFrames[sessionId]
                   known == sessionId \in DOMAIN remoteSessions
               IN  [status |-> 200, ok |-> TRUE,
                    frame |-> [data |-> frame.frameData, width |-> frame.width,
                               height |-> frame.height, capturedAt |-> frame.timestamp],
                    session |-> [sessionId |-> sessionId,
                                 status |-> IF known THEN remoteSessions[sessionId].status
                                            ELSE "unknown",
                                 frameCount |-> IF known
                                                THEN remoteSessions[sessionId].frameCount
                                                ELSE 0]]
    /\ UNCHANGED << awaiting, latestSnapshot, remoteSessions, remoteFrames >>

\* POST /v1/remote/action; executedAt, a time, is left out
RemoteAction(sessionId, action) ==
    /\ reply' =
          IF ~Truthy(sessionId) \/ ~Truthy(action)
          THEN [status |-> 400, error |-> "Missing sessionId or action"]
          ELSE IF sessionId \notin DOMAIN remoteSessions
          THEN [status |-> 404, error |-> "Session not found"]
          ELSE [status |-> 200, ok |-> TRUE, action |-> action, sessionId |-> sessionId]
    /\ UNCHANGED << awaiting, latestSnapshot, remoteSessions, remoteFrames >>

\* GET /v1/remote/status/:sessionId; uptimeSeconds and lastFrameAt are left out
RemoteStatus(sessionId) ==
    /\ reply' =
          IF sessionId \notin DOMAIN remoteSessions
          THEN [status |-> 404, error |-> "Session not found"]
          ELSE LET session == remoteSessions[sessionId]
                   hasFrame == sessionId \in DOMAIN remoteFrames
               IN  [status |-> 200, ok |-> TRUE, sessionId |-> sessionId,
                    state |-> session.status, clientType |-> session.clientType,
                    frameCount |-> session.frameCount, hasFrame |-> hasFrame,
                    frameDimensions |->
                        IF hasFrame THEN [width |-> remoteFrames[sessionId].width,
                                          height |-> remoteFrames[sessionId].height]
                        ELSE JNull]
    /\ UNCHANGED << awaiting, latestSnapshot, remoteSessions, remoteFrames >>

\* Variant of RemoteSessionStop: the stored frame is kept
RemoteSessionStop_KeepFrame(sessionId) ==
    /\ remoteSessions' = MapDelete(remoteSessions, sessionId)
    /\ reply' = [status |-> 200, ok |-> TRUE, message |-> "Session terminated"]
    /\ UNCHANGED << awaiting, latestSnapshot, remoteFrames >>

\* Variant of RemoteSessionStop: both maps are cleared
RemoteSessionStop_ClearAll(sessionId) ==
    /\ remoteSessions' = NoMap
    /\ remoteFrames' = NoMap
    /\ reply' = [status |-> 200, ok |-> TRUE, message |-> "Session terminated"]
    /\ UNCHANGED << awaiting, latestSnapshot >>

\* POST /v1/remote/session/stop/:sessionId
RemoteSessionStop(sessionId) ==
    /\ remoteSessions' = MapDelete(remoteSessions, sessionId)
    /\ remoteFrames' = MapDelete(remoteFrames, sessionId)
    /\ reply' = [status |-> 200, ok |-> TRUE, message |-> "Session terminated"]
    /\ UNCHANGED << awaiting, latestSnapshot >>

\* GET /v1/models
Models ==
    /\ reply' = [status |-> 200, object |-> "list", data |-> << "arkaios", "aida", "lab" >>]
    /\ UNCHANGED << awaiting, latestSnapshot, remoteSessions, remoteFrames >>

\* GET /v1/healthz
HealthzAuth ==
    /\ reply' = [status |-> 200, ok |-> TRUE, scope |-> "auth"]
    /\ UNCHANGED << awaiting, latestSnapshot, remoteSessions, remoteFrames >>

\* GET /healthz
Healthz ==
    /\ reply' = [status |-> 200, ok |-> TRUE]
    /\ UNCHANGED << awaiting, latestSnapshot, remoteSessions, remoteFrames >>

\* A deployment with lab at its default base URL and one retry
ConcEnv == [DefaultEnv EXCEPT !.UPSTREAM_MAX_ATTEMPTS = JNum(2)]

InitConc == env = ConcEnv /\ InitStore /\ InitHandler /\ probe = NoProbe

\* Two requests for model lab on /v1/chat/completions, a snapshot store and a
\* remote session, in any order
NextConc ==
    \/ \E p \in Prompts :
           Through(Request("chat", Undef, Undef),
                   Receive("chat", JStr(Lit("lab")), JArr(<< Message("user", p) >>), Lit(""),
                           FALSE))
    \/ \E status \in {200, 429} : UpstreamResponds(status)
    \/ UpstreamThrows
    \/ Wake
    \/ Finish
    \/ Switch
    \/ Through(Request("backup/store", Undef, Undef),
               BackupStore(JObj(<< KV("snapshot", JObj(<< KV("v", JNum(1)) >>)) >>)))
    \/ \E sessionId \in {Undef, JStr(Lit("s1"))} :
           Through(Request("remote/session/start", Undef, sessionId),
                   RemoteSessionStart(sessionId, JStr(Lit("ext"))))
    \/ Through(Request("remote/frame", Undef, JStr(Lit("s1"))),
               RemoteFrame(JStr(Lit("s1")), JStr(Lit("img")), JNum(2), JNum(1), JNum(0)))

SpecConc == InitConc /\ [][NextConc]_vars

(* ------------------------- the routes under /v1 ---------------------- *)

\* Authorization headers: none, the configured key as bearer token, another
\* token, the scheme in lower case, the bare key, a token with a trailing
\* blank, and an empty token
AuthHeaders ==
    {Undef} \cup
    {JStr(t) : t \in {Lit("Bearer ") \o Lit("k1"), Lit("Bearer ") \o Lit("zz"),
                      Lit("bearer ") \o Lit("k1"), Lit("k1"),
                      Lit("Bearer ") \o Lit("k1") \o Lit(" "), Lit("Bearer ")}}

\* Deployments with lab at its default base URL and no retry, without and
\* with a PROXY_API_KEY
AuthEnvs ==
    { [DefaultEnv EXCEPT !.UPSTREAM_MAX_ATTEMPTS = JNum(1), !.PROXY_API_KEY = k] :
        k \in {Lit(""), Lit("k1")} }

InitAuth == env \in AuthEnvs /\ InitStore /\ InitHandler /\ probe = NoProbe

\* Requests with any of the headers on the routes under /v1 and on /healthz;
\* the relay answers the one chat request with 403
NextAuth ==
    \/ \E authorization \in AuthHeaders :
           \/ Through(Numbered("chat", authorization, Undef),
                      Receive("chat", JStr(Lit("lab")), JArr(<< Message("user", Lit("hola")) >>),
                              Lit(""), FALSE))
           \/ Through(Numbered("models", authorization, Undef), Models)
           \/ Through(Numbered("/v1/healthz", authorization, Undef), HealthzAuth)
           \/ Public(Numbered("/healthz", authorization, Undef), Healthz)
           \/ Through(Numbered("backup/store", authorization, Undef),
                      BackupStore(JObj(<< KV("snapshot", JObj(<< KV("v", JNum(1)) >>)) >>)))
           \/ Through(Numbered("remote/session/start", authorization, JStr(Lit("s1"))),
                      RemoteSessionStart(JStr(Lit("s1")), JStr(Lit("ext"))))
           \/ Through(Numbered("remote/frame", authorization, JStr(Lit("s1"))),
                      RemoteFrame(JStr(Lit("s1")), JStr(Lit("img")), JNum(2), JNum(1), JNum(0)))
           \/ Through(Numbered("remote/last-frame", authorization, JStr(Lit("s1"))),
                      RemoteLastFrame(JStr(Lit("s1"))))
           \/ Through(Numbered("remote/session/stop", authorization, JStr(Lit("s1"))),
                      RemoteSessionStop(JStr(Lit("s1"))))
    \/ UpstreamResponds(403)
    \/ UpstreamThrows
    \/ Finish

SpecAuth == InitAuth /\ [][NextAuth]_vars

(* ----------------------- remote-desktop sessions --------------------- *)

\* The sessionId of a request body: none, two strings and a number
BodyIds == {Undef, JStr(Lit("s1")), JStr(Lit("5")), JNum(5)}

\* The sessionId of a route parameter is a string
PathIds == {JStr(Lit("s1")), JStr(Lit("5"))}

\* The sessionId of a query string is a string, or missing
QueryIds == PathIds \cup {Undef}

InitRemote == env = DefaultEnv /\ InitStore /\ InitHandler /\ probe = NoProbe

NextRemote ==
    \/ \E sessionId \in BodyIds :
           Through(Chained("remote/session/start", Undef, sessionId),
                   RemoteSessionStart(sessionId, JStr(Lit("ext"))))
    \/ \E sessionId \in BodyIds, frameData \in {Undef, JStr(Lit("img")), JStr(Lit("pic"))} :
           Through(Chained("remote/frame", Undef, sessionId),
                   RemoteFrame(sessionId, frameData, JNum(2), JNum(1), JNum(0)))
    \/ \E sessionId \in QueryIds :
           Through(Chained("remote/last-frame", Undef, sessionId), RemoteLastFrame(sessionId))
    \/ \E sessionId \in BodyIds :
           Through(Chained("remote/action", Undef, sessionId),
                   RemoteAction(sessionId, JStr(Lit("click"))))
    \/ \E sessionId \in PathIds :
           Through(Chained("remote/status", Undef, sessionId), RemoteStatus(sessionId))
    \/ \E sessionId \in PathIds :
           Through(Chained("remote/session/stop", Undef, sessionId),
                   RemoteSessionStop(sessionId))

SpecRemote == InitRemote /\ [][NextRemote]_vars

(* --------------------------- the snapshot store ---------------------- *)

\* GET /v1/backup/latest
BackupLatest ==
    /\ reply' = IF ~Truthy(latestSnapshot)
                THEN [status |-> 404, ok |-> FALSE, error |-> "no_snapshot"]
                ELSE [status |-> 200, body |-> latestSnapshot]
    /\ UNCHANGED << awaiting, latestSnapshot, remoteSessions, remoteFrames >>

\* Bodies of a store request: none, an empty object, envelopes with an object,
\* with a text, with a falsy snapshot (null, 0, "", false) and with a second
\* key, a snapshot sent directly, and an array
SnapshotBodies ==
    {Undef, JObj(<< >>), JArr(<< JNum(1) >>), JObj(<< KV("v", JNum(1)) >>)}
    \cup {JObj(<< KV("snapshot", v) >>) :
             v \in {JObj(<< KV("v", JNum(1)) >>), JObj(<< KV("v", JNum(2)) >>),
                    JStr(Lit("txt")), JNull, JNum(0), JStr(Lit("")), JBool(FALSE)}}
    \cup {JObj(<< KV("snapshot", JObj(<< KV("v", JNum(1)) >>)), KV("meta", JNum(1)) >>)}

\* The request rq with its parsed body
WithBody(rq, body) ==
    [route |-> rq.route, authorization |-> rq.authorization, sessionId |-> rq.sessionId,
     seq |-> rq.seq, prev |-> rq.prev, reached |-> rq.reached, body |-> body]

\* A deployment with lab at its default base URL and no retry
BackupEnv == [DefaultEnv EXCEPT !.UPSTREAM_MAX_ATTEMPTS = JNum(1)]

InitBackup == env = BackupEnv /\ InitStore /\ InitHandler /\ probe = NoProbe

\* Store and latest requests among requests to the other routes: a chat
\* request for lab with its upstream outcomes, models, health, and the
\* remote-desktop session s1
NextBackup ==
    \/ \E body \in SnapshotBodies :
           Through(WithBody(Chained("backup/store", Undef, Undef), body), BackupStore(body))
    \/ Through(Chained("backup/latest", Undef, Undef), BackupLatest)
    \/ Through(Chained("chat", Undef, Undef),
               Receive("chat", JStr(Lit("lab")), JArr(<< Message("user", Lit("hola")) >>),
                       Lit(""), FALSE))
    \/ \E status \in {200, 403} : UpstreamResponds(status)
    \/ UpstreamThrows
    \/ Finish
    \/ Through(Chained("models", Undef, Undef), Models)
    \/ Through(Chained("/v1/healthz", Undef, Undef), HealthzAuth)
    \/ Through(Chained("remote/session/start", Undef, JStr(Lit("s1"))),
               RemoteSessionStart(JStr(Lit("s1")), JStr(Lit("ext"))))
    \/ Through(Chained("remote/frame", Undef, JStr(Lit("s1"))),
               RemoteFrame(JStr(Lit("s1")), JStr(Lit("img")), JNum(2), JNum(1), JNum(0)))
    \/ Through(Chained("remote/session/stop", Undef, JStr(Lit("s1"))),
               RemoteSessionStop(JStr(Lit("s1"))))

SpecBackup == InitBackup /\ [][NextBackup]_vars

(* ------------------ the two endpoints side by side ------------------- *)

\* A chat request and a completions request with the same model id and the
\* same prompt text, stream = false, are given the same upstream outcomes: the
\* chat request gets any outcome, and the completions request then gets the
\* outcome the chat request got last.

\* The handler with locals c serves the endpoint ep
Serves(c, ep) == c.h.stage # "none" /\ c.h.ep = ep

\* Both requests have been received
Paired ==
    \/ Serves(Context, "chat") /\ Serves(suspended, "completions")
    \/ Serves(Context, "completions") /\ Serves(suspended, "chat")

\* The outbound requests of c that got their outcome
Settled(c) == Len(c.calls) - (IF c.pc = "inflight" THEN 1 ELSE 0)

\* The outcome of the outbound request of c that was settled last: the cause
\* of its sleep, or the result of its latest invocation that ended
LastOutcome(c) ==
    IF c.pc = "sleeping" THEN c.lastWait.cause
    ELSE LET ended == {i \in 1..Len(c.runs) : c.runs[i].ret # Pending}
         IN  c.runs[CHOOSE i \in ended : \A k \in ended : k <= i].ret

\* The running request drew, with its latest outcome, the Retry-After header,
\* the jitter and the body that the suspended one drew
SameDraw ==
    /\ (pc = "sleeping" /\ suspended.pc = "sleeping")
          => /\ lastWait.hinted = suspended.lastWait.hinted
             /\ lastWait.jitter = suspended.lastWait.jitter
    /\ (pc # "sleeping" /\ suspended.pc # "sleeping") => got = suspended.got

\* The content of the last message, '' for no message
LastContent(messages) ==
    IF messages = << >> THEN Lit("") ELSE Prop(messages[Len(messages)], "content").s

\* The running request has got as far as it can: the chat request is ahead
\* by one outcome, or the completions request has caught up with it.
TurnOver ==
    \/ Serves(Context, "chat") /\ suspended = IdleContext
    \/ Paired /\ Serves(Context, "chat") /\ Settled(Context) = Settled(suspended) + 1
    \/ /\ Paired /\ Serves(Context, "completions")
       /\ Settled(Context) = Settled(suspended)
       /\ pc # "sleeping" /\ suspended.pc # "done"

\* The messages arrays with at most one message
TwinMessages == {m \in MessageLists : Len(m) <= 1}

\* Deployments that differ in the backends, with one retry
TwinEnvs == {[e EXCEPT !.UPSTREAM_MAX_ATTEMPTS = JNum(2)] : e \in BackendEnvs}

InitTwin == env \in TwinEnvs /\ InitRequest

NextTwin ==
    \/ /\ pc = "idle" /\ suspended = IdleContext /\ lastReq = NoRequest
       /\ \E model \in ModelIds, messages \in TwinMessages :
              Through(WithBody(Request("chat", Undef, Undef),
                               [model |-> model, prompt |-> LastContent(messages)]),
                      Receive("chat", model, JArr(messages), Lit(""), FALSE))
    \/ /\ pc = "idle" /\ Serves(suspended, "chat") /\ lastReq.route = "chat"
       /\ Through(WithBody(Request("completions", Undef, Undef), lastReq.body),
                  Receive("completions", lastReq.body.model, JArr(<< >>), lastReq.body.prompt,
                          FALSE))
    \/ /\ Paired /\ Serves(Context, "chat") /\ Settled(Context) = Settled(suspended)
       /\ \/ \E status \in {200, 403, 429, 500} : UpstreamResponds(status)
          \/ UpstreamThrows
          \/ Wake
    \/ /\ Paired /\ Serves(Context, "completions")
       /\ Settled(suspended) = Settled(Context) + 1
       /\ \/ /\ ~LastOutcome(suspended).thrown
             /\ UpstreamResponds(LastOutcome(suspended).status)
          \/ /\ LastOutcome(suspended).thrown
             /\ UpstreamThrows
       /\ SameDraw'
    \/ /\ Serves(Context, "completions")
       /\ Wake
    \/ /\ TurnOver
       /\ Switch

SpecTwin == InitTwin /\ [][NextTwin]_vars

(* ----------------------- pickPath on its own ------------------------- *)

\* Bound: the number of candidate paths of a path specification
MaxCandidates == 2

\* Candidate paths, as lists of keys; the empty list is an empty candidate
PathKeys == { << "a" >>, << "b" >>, << "a", "b" >>, << "z" >>, << "a", "z", "b" >>, << >> }

CandidateLists == UNION { [1..n -> PathKeys] : n \in 0..MaxCandidates }

\* Parsed bodies: nested, falsy, null and missing values at the candidate paths
PickObjects ==
    { JObj(<< KV("a", JObj(<< KV("b", JStr(Lit("x"))) >>)), KV("b", JNum(0)) >>),
      JObj(<< KV("a", JNull), KV("b", JBool(FALSE)) >>),
      JObj(<< KV("a", JObj(<< KV("b", JNull) >>)), KV("b", JStr(Lit(""))) >>),
      JObj(<< KV("a", JNum(0)), KV("b", JStr(Lit("y"))) >>),
      JObj(<< KV("a", JStr(Lit("str"))) >>),
      JObj(<< >>),
      JNull,
      JNum(0) }

RECURSIVE DotJoin(_)
\* keys.join('.') as tokens
DotJoin(keys) ==
    IF keys = << >> THEN << >>
    ELSE IF Len(keys) = 1 THEN << keys[1] >>
    ELSE << keys[1], "." >> \o DotJoin(Tail(keys))

RECURSIVE BarJoin(_, _)
\* The path specification 'p1|p2|...', each candidate between blanks when spaced
BarJoin(cands, spaced) ==
    IF cands = << >> THEN << >>
    ELSE (IF spaced THEN << " " >> ELSE << >>) \o DotJoin(Head(cands))
         \o (IF spaced THEN << " " >> ELSE << >>)
         \o (IF Len(cands) > 1 THEN << "|" >> \o BarJoin(Tail(cands), spaced) ELSE << >>)

InitPickPath ==
    /\ env = DefaultEnv
    /\ InitStore
    /\ InitHandler
    /\ probe \in { [fn |-> "pickPath", obj |-> o, cands |-> cs, pathStr |-> BarJoin(cs, sp),
                     applied |-> FALSE, out |-> Undef] :
                       o \in PickObjects, cs \in CandidateLists, sp \in BOOLEAN }

\* const picked = pickPath(j, pathStr)
ApplyPickPath ==
    /\ probe.fn = "pickPath"
    /\ ~probe.applied
    /\ probe' = [probe EXCEPT !.applied = TRUE, !.out = pickPath(probe.obj, probe.pathStr)]
    /\ UNCHANGED << env, pc, h, call, attempt, hist, lastWait, sleeps, calls, runs, got,
                    resp, sent, suspended, latestSnapshot, remoteSessions, remoteFrames, reply,
                    lastReq >>

NextPickPath == ApplyPickPath

SpecPickPath == InitPickPath /\ [][NextPickPath]_vars

(* ---------------------- the extraction on its own -------------------- *)

\* Parsed bodies of successful responses: those of OkJson, and bodies with a
\* pick and a note, an empty or non-string value at a candidate path or at a
\* fixed field, several fixed fields, steps alone, the degraded marker next to
\* a message, a blank message or a string reply, and values that are no object
ExtractJson ==
    OkJson \cup
    { JObj(<< KV("data", JObj(<< KV("text", JStr(Lit("A"))) >>)), KV("note", JStr(Lit("N"))) >>),
      JObj(<< KV("params", JObj(<< KV("objective", JStr(Lit("hola"))) >>)),
              KV("response", JStr(Lit("R"))), KV("note", JStr(Lit("N"))),
              KV("plan", JArr(<< JStr(Lit("uno")) >>)) >>),
      JObj(<< KV("data", JObj(<< KV("text", JStr(Lit(""))) >>)) >>),
      JObj(<< KV("data", JObj(<< KV("text", JNum(5)) >>)), KV("reply", JStr(Lit("R"))) >>),
      JObj(<< KV("content", JStr(Lit(""))) >>),
      JObj(<< KV("content", JStr(Lit("C"))) >>),
      JObj(<< KV("text", JStr(Lit(""))), KV("reply", JNum(0)), KV("content", JStr(Lit("C"))) >>),
      JObj(<< KV("response", JStr(Lit("R"))), KV("text", JStr(Lit("T"))) >>),
      JObj(<< KV("steps", JArr(<< JStr(Lit("uno")), JObj(<< KV("do", JNum(2)) >>) >>)) >>),
      JObj(<< KV("steps", JArr(<< >>)) >>),
      JObj(<< KV("via", JStr(Lit("degraded"))), KV("reply", JStr(Lit("hola"))) >>),
      JObj(<< KV("via", JStr(Lit("degraded"))), KV("message", JStr(Lit(" "))) >>),
      JObj(<< KV("via", JStr(Lit("degraded"))), KV("content", JStr(Lit("C"))) >>),
      JObj(<< KV("via", JStr(Lit("direct"))), KV("message", JStr(Lit("M"))) >>),
      JArr(<< >>), JNum(5), JStr(Lit("s")), JBool(FALSE) }

ExtractBodies ==
    {RawBody(Lit("OK"))} \cup {JsonBody(v) : v \in ExtractJson}
    \cup {PaddedBody(v) : v \in ExtractJson}

\* The text a branch of the endpoint handlers makes of a successful response
Extract(branch, body, last) ==
    CASE branch = "custom" -> CustomExtract(body, ARKAIOS_RESP_PATH)
      [] branch = "aida" -> HumanizeAida(body)
      [] branch = "labChat" -> LabChatExtract(body, LAB_MCP_RESP_PATH, last)
      [] branch = "labCompletions" -> LabCompletionsExtract(body, LAB_MCP_RESP_PATH, last)
      [] branch = "labFallback" -> LabFallbackExtract(body, LAB_MCP_RESP_PATH, last)

InitExtract ==
    /\ env = DefaultEnv
    /\ InitStore
    /\ InitHandler
    /\ probe \in { [fn |-> "extract", branch |-> br, body |-> b, last |-> p,
                     applied |-> FALSE, out |-> Undef] :
                       br \in {"custom", "aida", "labChat", "labCompletions", "labFallback"},
                       b \in ExtractBodies, p \in Prompts }

\* let out = text; try { const j = JSON.parse(text); ... } catch {}
ApplyExtract ==
    /\ probe.fn = "extract"
    /\ ~probe.applied
    /\ probe' = [probe EXCEPT !.applied = TRUE,
                               !.out = Extract(probe.branch, probe.body, probe.last)]
    /\ UNCHANGED << env, pc, h, call, attempt, hist, lastWait, sleeps, calls, runs, got,
                    resp, sent, suspended, latestSnapshot, remoteSessions, remoteFrames, reply,
                    lastReq >>

NextExtract == ApplyExtract

SpecExtract == InitExtract /\ [][NextExtract]_vars

(* ------------------------------ properties --------------------------- *)

Done == pc = "done"

\* Prefix and containment of strings
RECURSIVE IsPrefix(_, _)
IsPrefix(p, s) ==
    IF p = << >> THEN TRUE
    ELSE IF s = << >> THEN FALSE
    ELSE IF Head(p).c # Head(s).c THEN FALSE
    ELSE IF Head(p).n = Head(s).n THEN IsPrefix(Tail(p), Tail(s))
    ELSE Head(p).n < Head(s).n /\ Tail(p) = << >>

\* s occurs in t as a run of whole chunks.
Contains(t, s) ==
    \E i \in 0..(Len(t) - Len(s)) : SubSeq(t, i + 1, i + Len(s)) = s

\* The latest fetchWithRetry invocation has ended; hist and got are its.
RunEnded == Done /\ runs # << >>
LastRun == runs[Len(runs)]

TierOf(name) == CASE name = "arkaios" -> 1 [] name = "aida" -> 2 [] name = "lab" -> 3

RunsOf(name) == {i \in 1..Len(runs) : runs[i].backend = name}
CallsTo(name) == Cardinality({i \in 1..Len(calls) : calls[i].backend = name})
Skipped(name) == RunsOf(name) = {}
EndedWith(name, status) == \E i \in RunsOf(name) : runs[i].ret = Outcome(status)
FailedWithStatus(run) ==
    /\ "status" \in DOMAIN run.ret
    /\ ~run.ret.thrown
    /\ ~IsOk(run.ret.status)

\* A request for arkaios in custom mode has been answered
CustomArkaios == Done /\ h.stage \in {"custom", "fbAida", "fbLab"} /\ h.b.name = "arkaios"

\* ... and its primary call ended with a returned 429
EnteredChain == CustomArkaios /\ runs[1].ret = Outcome(429)

\* C1: a request whose primary ended with 429 and whose fallback tiers are
\* each rate-limited (429) or skipped as unconfigured is answered HTTP 200.
C1_RateLimitedOrSkippedEndsIn200 ==
    (EnteredChain /\ (Skipped("aida") \/ EndedWith("aida", 429))
                  /\ (Skipped("lab") \/ EndedWith("lab", 429)))
    => resp.status = 200

C3_AllRateLimitedDegrades ==
    (EnteredChain /\ EndedWith("aida", 429) /\ EndedWith("lab", 429))
    => /\ resp.status = 200
       /\ IsString(resp.text)
       /\ Contains(resp.text.s,
                   Lit("Tu solicitud fue recibida y el sistema esta en modo degradado."))
       /\ Contains(resp.text.s,
                   Lit("Prompt: ") \o (IF h.last = << >> THEN Lit("(vacio)") ELSE h.last))
       /\ Contains(resp.text.s, h.last)
       /\ call = NoCall
       /\ calls[Len(calls)].backend = "lab"
       /\ Len(calls) = runs[1].attempts + runs[2].attempts + runs[3].attempts
       /\ Len(calls) = 3 * maxAttempts

C3_Witness ==
    /\ EnteredChain /\ EndedWith("aida", 429) /\ EndedWith("lab", 429)
    /\ h.last = Lit("hola")
    /\ resp.status = 200

\* C4: when arkaios (custom mode) answers 403, no request goes to aida or lab
\* (one request in all when 403 is the first answer) and the client gets 502
\* naming status 403, with the first 600 characters of the upstream body.
C4_Primary403Surfaces ==
    (CustomArkaios /\ runs[1].ret = Outcome(403))
    => /\ Len(runs) = 1
       /\ CallsTo("aida") = 0 /\ CallsTo("lab") = 0
       /\ Len(calls) = hist.n
       /\ resp.status = 502
       /\ resp.upstream = 403
       /\ Contains(resp.error, Lit("403"))
       /\ DOMAIN resp = {"status", "kind", "error", "upstream", "body"}
       /\ IsPrefix(resp.body, got.body.text)
       /\ StrLen(resp.body) = (IF StrLen(got.body.text) < 600 THEN StrLen(got.body.text) ELSE 600)

C4_Witness ==
    /\ CustomArkaios /\ runs[1].ret = Outcome(403)
    /\ Len(calls) = 1
    /\ StrLen(got.body.text) > 600
    /\ StrLen(resp.body) = 600

\* C5: an invocation of fetchWithRetry all of whose fetches were answered 429
\* has made exactly maxAttempts fetches and has returned a response with
\* status 429.
C5_All429ExhaustsAttempts ==
    (RunEnded /\ hist.all429)
    => /\ hist.n = maxAttempts
       /\ LastRun.attempts = maxAttempts
       /\ CallsTo(LastRun.backend) = maxAttempts
       /\ LastRun.ret = Outcome(429)
       /\ got.status = 429

C5_Witness ==
    /\ RunEnded /\ hist.all429
    /\ env.UPSTREAM_MAX_ATTEMPTS = Unset
    /\ Len(calls) = 4

\* C6: fetchWithRetry sleeps only after a thrown error or a response with
\* status 429 or 500..599; a response with any other status ends the
\* invocation with no sleep and no fetch after it.
C6_RetryOnly429And5xx ==
    /\ pc = "sleeping" =>
          \/ lastWait.cause.thrown
          \/ lastWait.cause.status = 429
          \/ lastWait.cause.status \in 500..599
    /\ (RunEnded /\ ~LastRun.ret.thrown /\ LastRun.ret.status # 429
                 /\ LastRun.ret.status \notin 500..599)
          => /\ got.status = LastRun.ret.status
             /\ sleeps = hist.n - 1
             /\ CallsTo(LastRun.backend) = hist.n

C6_Witness ==
    /\ RunEnded
    /\ LastRun.ret = Outcome(403)
    /\ hist.n = 2
    /\ sleeps = 1

\* C7: a thrown error before the last attempt is followed by a sleep and a new
\* fetch; an invocation never makes more than maxAttempts fetches; an error is
\* thrown to the caller only on the maxAttempts-th fetch, and then reaches it,
\* as does the response of that fetch.
C7_ErrorsRetriedAndLastOutcomeDelivered ==
    /\ attempt <= maxAttempts /\ hist.n <= maxAttempts
    /\ \A i \in 1..Len(runs) : CallsTo(runs[i].backend) <= maxAttempts
    /\ (pc = "sleeping" /\ lastWait.cause.thrown)
          => attempt < maxAttempts /\ sleeps = attempt
             /\ lastWait.waitMs >= lastWait.backoff
    /\ pc = "inflight" => sleeps = attempt - 1 /\ CallsTo(call.backend) = attempt
    /\ (RunEnded /\ LastRun.ret.thrown)
          => hist.n = maxAttempts /\ resp = ServerError(Lit("fetch failed"))
    /\ (RunEnded /\ ~LastRun.ret.thrown)
          => got.status = LastRun.ret.status /\ resp # ServerError(Lit("fetch failed"))

C7_Witness ==
    /\ RunEnded /\ LastRun.ret.thrown
    /\ ~hist.all429
    /\ maxAttempts = 4 /\ Len(calls) = 4 /\ sleeps = 3

\* C8: the wait before retry k is min(maxDelay, baseDelay * 2^(k-1)) plus a
\* jitter below 250, or the hinted delay of the retried response when that
\* is larger; with the defaults the backoff is 700, 1400, 2800, ... and at
\* most 8000.
C8_BackoffAndRetryAfter ==
    pc = "sleeping" =>
        LET k == lastWait.attempt
            b == IF baseDelay * 2^(k - 1) < maxDelay THEN baseDelay * 2^(k - 1) ELSE maxDelay
            computed == b + lastWait.jitter
        IN  /\ k \in 1..(maxAttempts - 1)
            /\ k = attempt
            /\ lastWait.backoff = b
            /\ lastWait.jitter \in 0..249
            /\ IF lastWait.hinted = JNull THEN lastWait.waitMs = computed
               ELSE /\ lastWait.waitMs >= lastWait.hinted.n
                    /\ lastWait.waitMs >= computed
                    /\ lastWait.waitMs \in {lastWait.hinted.n, computed}
            /\ (env.UPSTREAM_RETRY_BASE_MS = Unset /\ env.UPSTREAM_RETRY_MAX_MS = Unset)
                  => /\ b <= 8000
                     /\ k <= 4 => b = << 700, 1400, 2800, 5600 >>[k]

C8_Witness ==
    /\ pc = "sleeping"
    /\ lastWait.attempt = 3
    /\ lastWait.backoff = 2800
    /\ lastWait.hinted = JNum(9000)
    /\ lastWait.waitMs = 9000

\* C9: the fetchWithRetry invocations of one request go to arkaios, aida, lab
\* in that order, at most one to each; a tier is entered only after every
\* earlier tier failed or was skipped; no request goes to an earlier backend
\* once a later one has been contacted.
C9_TiersInOrderOnceEach ==
    /\ \A i, j \in 1..Len(runs) : i < j => TierOf(runs[i].backend) < TierOf(runs[j].backend)
    /\ \A i, j \in 1..Len(calls) : i < j => TierOf(calls[i].backend) <= TierOf(calls[j].backend)
    /\ \A i \in 1..(Len(runs) - 1) : FailedWithStatus(runs[i])
    /\ Len(runs) >= 2 => runs[1].backend = "arkaios"
    /\ (h.stage = "fbLab") => h.p.status = 429 /\ ~h.fb.ok

C9_Witness ==
    /\ Done
    /\ Len(runs) = 3
    /\ runs[1].backend = "arkaios" /\ runs[2].backend = "aida" /\ runs[3].backend = "lab"

\* The bodies of a relay that answers with the text "OK"
RelayOkBodies ==
    { RawBody(Lit("OK")),
      JsonBody(JObj(<< KV("result", JObj(<< KV("text", JStr(Lit("OK"))) >>)) >>)),
      JsonBody(JObj(<< KV("data", JObj(<< KV("text", JStr(Lit("OK"))) >>)) >>)),
      JsonBody(JObj(<< KV("reply", JStr(Lit("OK"))) >>)),
      JsonBody(JObj(<< KV("result", JObj(<< KV("via", JStr(Lit("degraded"))),
          KV("reply", JObj(<< KV("message", JStr(Lit("OK"))) >>)) >>)) >>)) }

\* C10: primary ended with 429, aida has no base URL, lab answers 200 with the
\* text "OK": no request went to aida, lab was contacted, and the client gets
\* HTTP 200 with the text "OK".
C10_SkipUnconfiguredSecondary ==
    (EnteredChain /\ trimBase(env.AIDA_BASE_URL) = << >>
                  /\ EndedWith("lab", 200) /\ got.body \in RelayOkBodies)
    => /\ CallsTo("aida") = 0
       /\ Skipped("aida")
       /\ CallsTo("lab") >= 1
       /\ h.fb = [ok |-> FALSE, reason |-> "aida_gateway_unavailable"]
       /\ resp.status = 200
       /\ resp.text = JStr(Lit("OK"))

C10_Witness ==
    /\ EnteredChain /\ trimBase(env.AIDA_BASE_URL) = << >>
    /\ EndedWith("lab", 200)
    /\ got.body = JsonBody(JObj(<< KV("result", JObj(<< KV("via", JStr(Lit("degraded"))),
          KV("reply", JObj(<< KV("message", JStr(Lit("OK"))) >>)) >>)) >>))
    /\ resp.text = JStr(Lit("OK"))

\* The request was dispatched to an upstream by a branch that builds the
\* response itself (every branch but the OpenAI passthrough)
Adapted == Done /\ h.stage \in {"gateway", "mcp", "custom", "fbAida", "fbLab"}

\* ... and the requested upstream was called by that branch directly
Direct == Done /\ h.stage \in {"gateway", "mcp", "custom"}

\* The fetchWithRetry invocation run returned a response with a status in sts
ReturnedIn(run, sts) ==
    /\ "status" \in DOMAIN run.ret
    /\ ~run.ret.thrown
    /\ run.ret.status \in sts

Retryable == {429} \cup (500..599)
NonRetryable4xx == (400..499) \ {429}

\* C11: on /v1/chat/completions, when the final status of the requested
\* upstream (arkaios, aida or lab, not in passthrough mode) is 429 or 5xx, the
\* client is answered HTTP 200.
C11_RetryableFinalStatusDegrades ==
    (Adapted /\ h.ep = "chat" /\ ReturnedIn(runs[1], Retryable))
    => resp.status = 200

\* C12 as stated: a status 4xx other than 429 from the requested upstream is
\* answered 502 after one outbound request, with no other tier contacted.
C12_NonRetryableSurfacesAs502 ==
    (Direct /\ ReturnedIn(runs[1], NonRetryable4xx))
    => /\ resp.status = 502
       /\ Len(runs) = 1
       /\ runs[1].attempts = 1 => Len(calls) = 1

\* C12 as amended: a status 4xx other than 429 from the requested upstream
\* ends the request with no request after it and no fallback tier; arkaios,
\* aida and any custom backend are answered 502 with the upstream status and
\* the first 600 characters of its body, and so is lab except for 403, which
\* is answered HTTP 200 with the degraded message.
C12_NonRetryableNoRetryNoFallback ==
    (Direct /\ ReturnedIn(runs[1], NonRetryable4xx))
    => /\ Len(runs) = 1
       /\ Len(calls) = runs[1].attempts
       /\ sleeps = runs[1].attempts - 1
       /\ got.status = runs[1].ret.status
       /\ IF h.stage = "mcp" /\ got.status = 403
          THEN resp = Completion(h.ep, JStr(buildDegradedText(h.last)))
          ELSE /\ resp.status = 502
               /\ resp.upstream = got.status
               /\ resp.body = Slice0(got.body.text, 600)

C12_Witness ==
    /\ Direct /\ h.stage = "mcp"
    /\ runs[1].ret = Outcome(403)
    /\ Len(calls) = 1
    /\ resp.status = 200

\* C13: when arkaios (custom mode) has used all its attempts and its final
\* status is 429 or 5xx, the handler goes on to the aida fallback.
C13_RetryableExhaustionAdvances ==
    (CustomArkaios /\ ReturnedIn(runs[1], Retryable) /\ runs[1].attempts = maxAttempts)
    => h.fb # Undef

\* C14: every outbound request that is awaited ends (by its response, or by
\* the abort of a timeout), so that the inbound request is answered, also
\* when the upstream never answers.
C14_EveryRequestAnswered == (pc = "inflight") ~> (pc = "done")

\* C15: a request whose backend has an empty base URL is answered HTTP 500
\* ("Missing base URL for <name>") and no outbound request, sleep or
\* fetchWithRetry invocation is made for it.
C15_MissingBaseIs500 ==
    (Done /\ h.stage # "pick" /\ h.b.base = << >>)
    => /\ h.stage = "config"
       /\ resp = ServerError(Lit("Missing base URL for ") \o Lit(h.b.name))
       /\ resp.status = 500
       /\ calls = << >>
       /\ runs = << >>
       /\ sleeps = 0
       /\ got = NoneGot
       /\ sent = 1

C15_Witness ==
    /\ Done
    /\ h.stage = "config"
    /\ h.b.name = "lab"
    /\ env.LAB_MCP_BASE_URL = Lit("/")
    /\ resp.status = 500

\* C16: every request resolves to one of the three backends; none ends with
\* an error raised by pick.
C16_PickTotalNeverRejects ==
    Done => /\ h.stage # "pick"
            /\ h.b.name \in {"arkaios", "aida", "lab"}

RECURSIVE SumAttempts(_)
SumAttempts(rs) == IF rs = << >> THEN 0 ELSE Head(rs).attempts + SumAttempts(Tail(rs))

\* The outbound requests that have been answered or have failed: those of the
\* invocations that ended, and those of the running one
Completed ==
    SumAttempts(runs)
    + (IF runs # << >> /\ LastRun.ret = Pending /\ ~(pc = "inflight" /\ attempt = 1)
       THEN hist.n ELSE 0)

\* The outbound requests issued and not yet answered
InFlight == Len(calls) - Completed

\* C17: at most one outbound request is in flight, and one is exactly while
\* the handler awaits fetch; an invocation of fetchWithRetry starts only when
\* those before it have ended; attempt k+1 is issued only after attempt k got
\* its outcome and the sleep after it has ended.
C17_OneOutboundCallAtATime ==
    /\ InFlight \in {0, 1}
    /\ InFlight = 1 <=> pc = "inflight"
    /\ \A i \in 1..(Len(runs) - 1) : runs[i].ret # Pending
    /\ pc = "inflight" => sleeps = attempt - 1 /\ hist.n >= (IF attempt = 1 THEN 0 ELSE attempt - 1)
    /\ pc = "sleeping" => InFlight = 0 /\ sleeps = attempt /\ hist.n = attempt

C17_Witness ==
    /\ pc = "inflight"
    /\ Len(runs) = 3
    /\ attempt = 2
    /\ Len(calls) = 2 * maxAttempts + 2
    /\ InFlight = 1

\* Two answered requests with the same locals and the same upstream outcomes
Twins ==
    /\ pc = "done" /\ suspended.pc = "done"
    /\ h = suspended.h
    /\ runs = suspended.runs
    /\ got = suspended.got

\* The answer of a request c for lab carries the prompt of c when lab ended
\* with 429 or 403
OwnPromptIn(c) ==
    (c.pc = "done" /\ c.h.stage = "mcp" /\ ReturnedIn(c.runs[1], {429, 403}))
    => c.resp = Completion(c.h.ep, JStr(buildDegradedText(c.h.last)))

\* C18: with two chat/completions requests interleaved at their awaits, and
\* with snapshot and remote-session requests between their steps: requests
\* with the same locals and the same upstream outcomes get the same answer,
\* whatever the store holds and the other request does; the degraded answer
\* of each carries its own prompt; and a step that changes latestSnapshot,
\* remoteSessions or remoteFrames is no step of a chat/completions handler.
C18_RequestsShareNoState ==
    /\ [](Twins => resp = suspended.resp)
    /\ [](OwnPromptIn(Context) /\ OwnPromptIn(suspended))
    /\ [][store' # store => (Context' = Context /\ suspended' = suspended)]_vars

C18_Witness ==
    /\ Twins
    /\ h.stage = "mcp"
    /\ runs[1].ret = Outcome(429)
    /\ runs[1].attempts = 2
    /\ latestSnapshot # JNull
    /\ DOMAIN remoteFrames # {}
    /\ resp.status = 200

\* The value an object holds at a chain of own keys, undefined when a key is
\* missing or the value on the way is not an object
RECURSIVE ValueAt(_, _)
ValueAt(v, keys) ==
    IF keys = << >> THEN v
    ELSE IF v.t = "obj" /\ \E i \in 1..Len(v.o) : v.o[i].k = Head(keys)
    THEN ValueAt(v.o[CHOOSE i \in 1..Len(v.o) : v.o[i].k = Head(keys)].v, Tail(keys))
    ELSE Undef

\* The candidates of the applied pickPath that hold a defined, non-null value
Hits ==
    { i \in 1..Len(probe.cands) :
        probe.cands[i] # << >> /\ ValueAt(probe.obj, probe.cands[i]) \notin {Undef, JNull} }

\* C19: pickPath returns the value at the leftmost candidate path that holds
\* a defined, non-null value, falsy or not, whatever candidates precede it,
\* and undefined when there is none; a missing, null or non-object value on
\* the way makes the candidate undefined, and nothing is thrown.
C19_PickPathLeftmostDefined ==
    (probe.fn = "pickPath" /\ probe.applied)
    => IF Hits = {} THEN probe.out = Undef
       ELSE probe.out = ValueAt(probe.obj, probe.cands[CHOOSE i \in Hits : \A j \in Hits : i <= j])

C19_Witness ==
    /\ probe.fn = "pickPath" /\ probe.applied
    /\ probe.cands = << << "a", "z", "b" >>, << "b" >> >>
    /\ probe.pathStr = << " ", "a", ".", "z", ".", "b", " ", "|", " ", "b", " " >>
    /\ probe.out = JNum(0)

\* C20: when the response that ends a request is successful and its body is
\* not valid JSON, the client gets HTTP 200 and the body as it is, as the
\* text of the completion or, in passthrough mode, as the response body.
C20_NonJsonBodyDeliveredRaw ==
    (RunEnded /\ ReturnedIn(LastRun, 200..299) /\ ~got.body.isJson)
    => /\ resp.status = 200
       /\ resp # ServerError(got.body.text)
       /\ IF h.stage = "openai" THEN resp.data = got.body.text
          ELSE resp = Completion(h.ep, JStr(got.body.text))

C20_Witness ==
    /\ RunEnded /\ ReturnedIn(LastRun, 200..299) /\ ~got.body.isJson
    /\ h.stage = "fbLab"
    /\ h.ep = "completions"
    /\ resp.text = JStr(Lit("OK"))

\* The extraction of a branch has been applied to a body
Extracted(branch) == probe.fn = "extract" /\ probe.applied /\ probe.branch = branch

\* The leftmost of the key chains paths at which v holds a defined, non-null
\* value, and undefined when there is none
RECURSIVE FirstAt(_, _)
FirstAt(v, paths) ==
    IF paths = << >> THEN Undef
    ELSE IF ValueAt(v, Head(paths)) \notin {Undef, JNull} THEN ValueAt(v, Head(paths))
    ELSE FirstAt(v, Tail(paths))

\* The leftmost truthy value at the key chains paths, undefined when there is none
RECURSIVE FirstTruthyAt(_, _)
FirstTruthyAt(v, paths) ==
    IF paths = << >> THEN Undef
    ELSE IF Truthy(ValueAt(v, Head(paths))) THEN ValueAt(v, Head(paths))
    ELSE FirstTruthyAt(v, Tail(paths))

FixedFieldNames == << "text", "reply", "response", "content" >>

\* C21: in custom mode, a JSON body with no value at the configured candidate
\* path (data.text) and none of the fields text, reply, response and content
\* is delivered as the JSON.stringify of the whole parsed body.
C21_NoMatchYieldsStringifiedBody ==
    (/\ Extracted("custom")
     /\ probe.body.isJson
     /\ ValueAt(probe.body.json, << "data", "text" >>) = Undef
     /\ \A i \in 1..Len(FixedFieldNames) :
            ValueAt(probe.body.json, << FixedFieldNames[i] >>) = Undef)
    => probe.out = JStr(Stringify(probe.body.json))

\* The fragments of a gateway body, read from the body key by key
AidaPaths ==
    << << "data", "text" >>, << "result", "note" >>, << "result", "text" >>, << "text" >>,
       << "reply" >>, << "response" >> >>
FragObjective(j) ==
    FirstTruthyAt(j, << << "result", "params", "objective" >>, << "params", "objective" >> >>)
FragPick(j) == Or(FirstAt(j, AidaPaths), ValueAt(j, << "content" >>))
FragNote(j) ==
    FirstTruthyAt(j, << << "result", "note" >>, << "note" >>, << "data", "text" >>, << "text" >> >>)
FragSteps(j) ==
    FirstTruthyAt(j, << << "result", "steps" >>, << "steps" >>, << "result", "plan" >>,
                       << "plan" >> >>)
HasPick(j) == IsString(FragPick(j)) /\ FragPick(j).s # << >>
HasSteps(j) == FragSteps(j).t = "arr" /\ FragSteps(j).a # << >>

\* The items of a list, numbered from 1, one per line
NumberedList(a) ==
    JoinStr([i \in 1..Len(a) |->
                Lit(ToString(i)) \o Lit(". ")
                \o (IF IsString(a[i]) THEN a[i].s ELSE Stringify(a[i]))], NL)

\* Objective echo, pick, note and steps, each when present; the note stands
\* beside a pick only when noteBesidePick
Fragments(j, noteBesidePick) ==
    (IF Truthy(FragObjective(j)) THEN << Lit("Objetivo: ") \o ToStr(FragObjective(j)) >>
     ELSE << >>)
    \o (IF HasPick(j) THEN << FragPick(j).s >> ELSE << >>)
    \o (IF Truthy(FragNote(j)) /\ (noteBesidePick \/ ~HasPick(j))
        THEN << ToStr(FragNote(j)) >> ELSE << >>)
    \o (IF HasSteps(j) THEN << NumberedList(FragSteps(j).a) >> ELSE << >>)

\* C22 as stated: the output for a JSON gateway body is the newline-joined
\* list of every fragment present (objective echo, pick, note, numbered
\* steps), and the stringified body when none is present.
C22_EveryPresentFragmentJoined ==
    (Extracted("aida") /\ probe.body.isJson)
    => probe.out = IF Fragments(probe.body.json, TRUE) # << >>
                   THEN JStr(JoinStr(Fragments(probe.body.json, TRUE), NL))
                   ELSE JStr(Stringify(probe.body.json))

\* C22 as amended: the output is the newline-joined list of the objective
\* echo, the pick or, only when there is no non-empty string pick, the note,
\* and the numbered steps, each when present; when none is present it is the
\* stringified body, or the empty string when the pick is an empty string.
C22_PickOrElseNoteJoined ==
    (Extracted("aida") /\ probe.body.isJson)
    => probe.out = IF Fragments(probe.body.json, FALSE) # << >>
                   THEN JStr(JoinStr(Fragments(probe.body.json, FALSE), NL))
                   ELSE IF IsString(FragPick(probe.body.json)) THEN JStr(Lit(""))
                   ELSE JStr(Stringify(probe.body.json))

C22_Witness ==
    /\ Extracted("aida")
    /\ probe.body.isJson
    /\ HasPick(probe.body.json) /\ Truthy(FragNote(probe.body.json))
    /\ FragPick(probe.body.json) # FragNote(probe.body.json)
    /\ HasSteps(probe.body.json)
    /\ probe.out = JStr(Lit("Objetivo: ") \o Lit("hola") \o NL \o Lit("R") \o NL
                        \o Lit("1") \o Lit(". ") \o Lit("uno"))

\* The paths at which the relay's message is looked for: the configured
\* candidate paths, then result.reply.message, reply.message and message
LabMessagePaths ==
    << << "result", "text" >>, << "data", "text" >>, << "text" >>, << "reply" >>,
       << "response" >>, << "result", "reply", "message" >>, << "reply", "message" >>,
       << "message" >> >>

HasDegradedMark(j) ==
    JStr(Lit("degraded")) \in {ValueAt(j, << "result", "via" >>), ValueAt(j, << "via" >>)}

\* C23: when a successful relay response carries via = 'degraded', the client
\* gets HTTP 200 with the extracted message when that is a non-blank string
\* and the standard degraded message with the prompt otherwise, whether lab
\* was requested or reached as the last fallback tier.
C23_DegradedMarkGivesMessageOrStandardText ==
    (/\ RunEnded
     /\ h.stage \in {"mcp", "fbLab"}
     /\ ReturnedIn(LastRun, 200..299)
     /\ got.body.isJson
     /\ HasDegradedMark(got.body.json))
    => resp = Completion(h.ep,
                  LET m == FirstAt(got.body.json, LabMessagePaths)
                  IN  IF IsString(m) /\ ~IsBlank(m.s) THEN m
                      ELSE JStr(buildDegradedText(h.last)))

\* C24: every HTTP 200 completion carries a text of type string.
C24_CompletionTextIsString ==
    (Done /\ resp.status = 200 /\ resp.kind \in {"chat.completion", "text_completion"})
    => IsString(resp.text)

\* C30: in passthrough mode a final upstream status that is not 2xx reaches
\* the client as that status, never as 200, on both endpoints; the body goes
\* out as a 200 event stream only for stream=true and an upstream success.
C30_PassthroughKeepsFailureStatus ==
    (RunEnded /\ h.stage = "openai" /\ ReturnedIn(LastRun, 100..599))
    => /\ ~IsOk(got.status) => resp.status = got.status
       /\ (resp.status = 200 /\ resp.contentType = "text/event-stream")
              => (h.stream /\ IsOk(got.status))

\* The fetchWithRetry invocation that made the i-th outbound request: one of
\* those that ended, or the one that is running
RunOfCall(i) ==
    IF i > SumAttempts(runs) THEN Len(runs)
    ELSE CHOOSE k \in 1..Len(runs) :
             /\ SumAttempts(SubSeq(runs, 1, k - 1)) < i
             /\ i <= SumAttempts(SubSeq(runs, 1, k))

\* C25: every attempt of one fetchWithRetry invocation sends the url, method,
\* headers and body the invocation was called with, and the invocation's url
\* and init are never reassigned.
C25_EveryAttemptSendsTheSameRequest ==
    /\ \A i \in 1..Len(calls) : calls[i] = runs[RunOfCall(i)].request
    /\ pc \in {"inflight", "sleeping"} => call = LastRun.request

C25_Witness ==
    /\ RunEnded
    /\ Len(runs) = 1
    /\ Len(calls) = 4
    /\ calls[4].headers.authorization = JStr(Lit("Bearer ") \o Lit("sk-arkaios"))
    /\ calls[4].url = calls[1].url

\* C26: in passthrough mode with stream=false, when the upstream answers with
\* the echo of the request body, the client gets HTTP 200 and the JSON text of
\* an object that holds the inbound messages in their order (chat) or the
\* inbound prompt (completions).
C26_EchoRoundTrip ==
    (/\ RunEnded
     /\ h.stage = "openai"
     /\ ~h.stream
     /\ ReturnedIn(LastRun, 200..299)
     /\ got.body = JsonBody(LastRun.request.body))
    => /\ resp.status = 200
       /\ resp.data =
             Stringify(JObj(<< KV("model", JStr(Lit(h.b.name))),
                               IF h.ep = "chat" THEN KV("messages", h.messages)
                               ELSE KV("prompt", h.prompt),
                               KV("stream", JBool(FALSE)) >>))

C26_Witness ==
    /\ RunEnded
    /\ h.stage = "openai"
    /\ h.ep = "chat"
    /\ ~h.stream
    /\ Len(h.messages.a) = 2
    /\ got.body = JsonBody(LastRun.request.body)
    /\ resp.status = 200
    /\ resp.data = got.body.text

\* The header of rq is exactly 'Bearer ' followed by PROXY_API_KEY, or no
\* PROXY_API_KEY is configured
Authorized(rq) ==
    env.PROXY_API_KEY = << >> \/ rq.authorization = JStr(Lit("Bearer ") \o env.PROXY_API_KEY)

SessionKeys == {JStr(Lit("s1")), JStr(Lit("5")), JNum(5)}

\* C28: a stop for an id removes its session and its frame; last-frame for an
\* id with no stored frame answers 404 (400 without an id) and answers 200
\* only for an id whose session exists; a frame appears for an id only by a
\* frame request for that id while its session exists, and a session only by
\* a start for that id. So from a stop on, last-frame answers 404 until a
\* start and then a frame for that id.
C28_NoFrameFromStopUntilStartAndFrame ==
    [][/\ lastReq'.route = "remote/session/stop"
            => /\ lastReq'.sessionId \notin DOMAIN remoteFrames'
               /\ lastReq'.sessionId \notin DOMAIN remoteSessions'
       /\ lastReq'.route = "remote/last-frame"
            => /\ lastReq'.sessionId \notin DOMAIN remoteFrames
                    => reply'.status = IF Truthy(lastReq'.sessionId) THEN 404 ELSE 400
               /\ reply'.status = 200
                    => /\ lastReq'.sessionId \in DOMAIN remoteFrames
                       /\ lastReq'.sessionId \in DOMAIN remoteSessions
                       /\ remoteSessions[lastReq'.sessionId].status = "active"
       /\ \A id \in SessionKeys :
            /\ (id \notin DOMAIN remoteFrames /\ id \in DOMAIN remoteFrames')
                   => /\ lastReq'.route = "remote/frame"
                      /\ lastReq'.sessionId = id
                      /\ id \in DOMAIN remoteSessions
            /\ (id \notin DOMAIN remoteSessions /\ id \in DOMAIN remoteSessions')
                   => /\ lastReq'.route = "remote/session/start"
                      /\ lastReq'.sessionId = id]_vars

C28_Witness ==
    /\ lastReq.route = "remote/last-frame"
    /\ lastReq.sessionId = JStr(Lit("s1"))
    /\ lastReq.prev = [route |-> "remote/session/stop", sessionId |-> JStr(Lit("s1"))]
    /\ reply.status = 404
    /\ JStr(Lit("5")) \in DOMAIN remoteFrames

\* C29: a start, frame, action, status, last-frame or stop for one sessionId
\* leaves the session record (with its frame count) and the stored frame of
\* every other sessionId as they were, and a session is removed only by a stop
\* for its own id.
C29_SessionsAreIndependent ==
    [][/\ \A id \in SessionKeys \ {lastReq'.sessionId} :
            /\ (id \in DOMAIN remoteSessions) = (id \in DOMAIN remoteSessions')
            /\ id \in DOMAIN remoteSessions => remoteSessions'[id] = remoteSessions[id]
            /\ (id \in DOMAIN remoteFrames) = (id \in DOMAIN remoteFrames')
            /\ id \in DOMAIN remoteFrames => remoteFrames'[id] = remoteFrames[id]
       /\ \A id \in SessionKeys :
            (id \in DOMAIN remoteSessions /\ id \notin DOMAIN remoteSessions')
                => /\ lastReq'.route = "remote/session/stop"
                   /\ lastReq'.sessionId = id]_vars

C29_Witness ==
    /\ lastReq.route = "remote/session/stop"
    /\ lastReq.sessionId = JStr(Lit("s1"))
    /\ lastReq.prev = [route |-> "remote/frame", sessionId |-> JStr(Lit("s1"))]
    /\ JStr(Lit("s1")) \notin DOMAIN remoteSessions
    /\ JStr(Lit("5")) \in DOMAIN remoteFrames
    /\ remoteFrames[JStr(Lit("5"))].frameData = JStr(Lit("pic"))
    /\ JNum(5) \in DOMAIN remoteFrames
    /\ remoteSessions[JNum(5)].frameCount = 1

\* The invocations that ended with a thrown error
ThrownRuns == {i \in 1..Len(runs) : runs[i].ret = Thrown}

\* C31: an invocation of fetchWithRetry that ends with a thrown error, in the
\* primary tier or in a fallback tier, has made maxAttempts fetches and is the
\* last invocation of its request: no tier follows it, and the request is
\* answered HTTP 500 with the message of the error, never with a degraded
\* 200, also when the tiers before it ended with 429.
C31_ThrownLastAttemptEndsIn500 ==
    \A i \in ThrownRuns :
        /\ i = Len(runs)
        /\ runs[i].attempts = maxAttempts
        /\ CallsTo(runs[i].backend) = maxAttempts
        /\ calls[Len(calls)].backend = runs[i].backend
        /\ pc = "done"
        /\ sent = 1
        /\ resp = [status |-> 500, kind |-> "error", error |-> Lit("fetch failed")]
        /\ h.stage = "fbAida" => h.fl = Undef
        /\ h.stage = "fbLab" => h.fl = Undef

C31_Witness ==
    /\ ThrownRuns = {3}
    /\ h.stage = "fbLab"
    /\ runs[1].ret = Outcome(429)
    /\ runs[2].ret = Outcome(429)
    /\ Len(calls) = 3 * maxAttempts
    /\ resp.status = 500

\* The request resolved to arkaios in custom mode
ArkaiosCustom == h.stage \in {"custom", "fbAida", "fbLab"} /\ h.b.name = "arkaios"

SleepCauseRetryable ==
    lastWait.cause.thrown \/ shouldRetryStatus(lastWait.cause.status)

\* C33: in one invocation of fetchWithRetry a sleep starts only while a fetch
\* is awaited and a further fetch is issued only from a sleep, so that they
\* alternate; a sleep follows only an attempt before the maxAttempts-th that
\* threw or got a retryable status; and an invocation ends, from an awaited
\* fetch and not from a sleep, with one sleep less than it made attempts.
C33_AttemptsAndSleepsAlternate ==
    /\ [](/\ pc = "inflight" => sleeps = attempt - 1
          /\ pc = "sleeping" => /\ sleeps = attempt
                                /\ attempt < maxAttempts
                                /\ SleepCauseRetryable
          /\ RunEnded => sleeps = LastRun.attempts - 1)
    /\ [][/\ sleeps' = sleeps + 1
               => pc = "inflight" /\ pc' = "sleeping" /\ calls' = calls
          /\ (pc # "idle" /\ Len(calls') = Len(calls) + 1 /\ attempt' > 1)
               => pc = "sleeping" /\ pc' = "inflight" /\ sleeps' = sleeps
          /\ \A i \in 1..Len(runs) :
               (runs[i].ret = Pending /\ runs'[i].ret # Pending)
               => /\ pc = "inflight"
                  /\ runs'[i].attempts = sleeps + 1
                  /\ runs'[i].attempts = attempt]_vars

C33_Witness ==
    /\ RunEnded
    /\ maxAttempts = 4
    /\ LastRun.attempts = 3
    /\ LastRun.ret = Outcome(404)
    /\ sleeps = 2
    /\ Len(runs) = 1

\* C34: when every awaited fetch resolves or rejects, a request whose handler
\* awaits is answered; a response is sent only by the step that ends the
\* handler, with a status; and a request is never answered twice: none is
\* sent while the handler awaits and exactly one has been when it has ended.
C34_ExactlyOneResponse ==
    /\ [](/\ sent \in {0, 1}
          /\ pc \in {"idle", "inflight", "sleeping"} => sent = 0 /\ resp = NoResp
          /\ pc = "done" => sent = 1 /\ resp.status \in {200, 304, 403, 404, 429, 500, 502})
    /\ [][sent' # sent => \/ sent' = sent + 1 /\ pc # "done" /\ pc' = "done"
                          \/ sent' = 0 /\ pc = "done" /\ pc' = "idle"]_vars
    /\ (pc \in {"inflight", "sleeping"}) ~> (pc = "done")

C34_Witness ==
    /\ pc = "done"
    /\ sent = 1
    /\ h.stage = "fbLab"
    /\ h.ep = "completions"
    /\ Len(runs) = 3
    /\ LastRun.ret = Outcome(500)
    /\ resp.status = 502

\* C36: every sessionId with a stored frame has a session record, whatever the
\* sequence of start, frame, action, status, last-frame and stop requests; a
\* request answered 400 or 404 leaves both maps as they were.
C36_FramesOnlyOfSessions ==
    /\ [](DOMAIN remoteFrames \subseteq DOMAIN remoteSessions)
    /\ [][reply'.status \in {400, 404}
            => remoteSessions' = remoteSessions /\ remoteFrames' = remoteFrames]_vars

C36_Witness ==
    /\ lastReq.route = "remote/frame"
    /\ lastReq.sessionId = JNum(5)
    /\ lastReq.prev = [route |-> "remote/session/stop", sessionId |-> JStr(Lit("s1"))]
    /\ reply.status = 404
    /\ DOMAIN remoteFrames = {JStr(Lit("5"))}
    /\ DOMAIN remoteSessions = {JStr(Lit("5"))}

\* C37: a session has a stored frame exactly when its frameCount is at least 1,
\* frameCount being the number of frames accepted since the latest start of
\* the session (so that status never reports hasFrame with frameCount 0).
C37_FrameStoredIffCounted ==
    \A id \in DOMAIN remoteSessions :
        id \in DOMAIN remoteFrames <=> remoteSessions[id].frameCount >= 1

\* The values that are falsy in JavaScript among those of a JSON body
Falsy == {JNull, JBool(FALSE), JNum(0), JStr(<< >>)}

HasSnapshotKey(body) ==
    body.t = "obj" /\ \E i \in 1..Len(body.o) : body.o[i].k = "snapshot"

SnapshotOf(body) ==
    body.o[CHOOSE i \in 1..Len(body.o) : body.o[i].k = "snapshot"].v

\* What a store and a latest request do, when a store with body keeps
\* Kept(body): a store replaces the snapshot by Kept of its body and is
\* answered 200, no step that is not a store changes the snapshot, and latest
\* answers 404 no_snapshot while nothing was stored and the snapshot after.
StoreAndLatest(Kept(_)) ==
    IF lastReq' # lastReq /\ lastReq'.route = "backup/store"
    THEN /\ latestSnapshot' = Kept(lastReq'.body)
         /\ latestSnapshot' # JNull
         /\ reply'.status = 200
    ELSE /\ latestSnapshot' = latestSnapshot
         /\ (lastReq' # lastReq /\ lastReq'.route = "backup/latest")
               => reply' = IF latestSnapshot = JNull
                           THEN [status |-> 404, ok |-> FALSE, error |-> "no_snapshot"]
                           ELSE [status |-> 200, body |-> latestSnapshot]

\* Every envelope is unwrapped
Unwrapped(body) ==
    IF body = Undef THEN JObj(<< >>)
    ELSE IF HasSnapshotKey(body) THEN SnapshotOf(body) ELSE body

\* An envelope is unwrapped when its snapshot is not falsy
UnwrappedUnlessFalsy(body) ==
    IF body = Undef THEN JObj(<< >>)
    ELSE IF HasSnapshotKey(body) /\ SnapshotOf(body) \notin Falsy THEN SnapshotOf(body)
    ELSE body

\* C38 as stated: latest answers 404 no_snapshot until a store, and from then
\* on the snapshot of the latest store, taken out of its {snapshot: ...}
\* envelope whenever the body is one; no other request changes the snapshot.
C38_LatestUnwrapsEveryEnvelope == [][StoreAndLatest(Unwrapped)]_vars

\* C38 as amended: the same, the snapshot being taken out of the envelope when
\* it is not null, false, 0 or the empty string, and the body being kept as
\* it is, envelope included, when it is.
C38_LatestServesLastStore == [][StoreAndLatest(UnwrappedUnlessFalsy)]_vars

C38_Witness ==
    /\ lastReq.route = "backup/latest"
    /\ lastReq.prev.route = "backup/store"
    /\ reply = [status |-> 200, body |-> JObj(<< KV("v", JNum(2)) >>)]
    /\ pc = "done"
    /\ DOMAIN remoteFrames # {}

\* The chat request and the completions request of a pair
ChatSide == IF Serves(Context, "chat") THEN Context ELSE suspended
CompletionsSide == IF Serves(Context, "completions") THEN Context ELSE suspended

\* The backend and url of each outbound request of c, in order
Contacted(c) == [i \in 1..Len(c.calls) |-> << c.calls[i].backend, c.calls[i].url >>]

\* The invocations of c: backend, number of attempts and result of each
Invocations(c) ==
    [i \in 1..Len(c.runs) |-> << c.runs[i].backend, c.runs[i].attempts, c.runs[i].ret >>]

====
